---- MODULE Spec2Model ----
(***************************************************************************)
(* LazzyORM: the query / update / delete builders, their execution against *)
(* a pooled connection, and the LazyFetch read-through cache.              *)
(*                                                                         *)
(* Text (identifiers, operators, SQL, cache keys) is a sequence of pieces. *)
(* A piece is one character of a caller-supplied string, or one literal    *)
(* the code writes (" WHERE ", "%s", ...).  Characters outside ASCII are   *)
(* written by code point ("U+00E9" is e-acute, "U+0131" is dotless i).     *)
(***************************************************************************)
EXTENDS Integers, Sequences, FiniteSets, TLC

VARIABLES
    kind,              \* which builder object exists: "none", "query", "update", "delete",
                       \* "insert"
    model,             \* LazyQuery.model: [name, arity]
    table_name,        \* _table_name / table_name
    select_columns,    \* LazyQuery._select_columns
    where_conditions,  \* _where_conditions
    where_params,      \* _where_params
    order_by,          \* LazyQuery._order_by
    limit_value,       \* _limit_value: <<>> is None, <<n>> is n
    offset_value,      \* LazyQuery._offset_value: <<>> is None, <<n>> is n
    set_values,        \* LazyUpdate._set_values: insertion-ordered [col, val] pairs
    inserter,          \* the LazyInsert instance's fields, or NoInsert
    connection,        \* builder._connection: "None" or "open"
    cursor,            \* builder._cursor: "None" or "open"
    fetch,             \* the LazyFetch instance, or NoFetch
    global_lookups,    \* LazyFetch._global_lookups: key text -> stored list
    leased,            \* connections taken from the pool and not yet closed
    logged,            \* history: the predicates in the statement the builder's log shows
                       \* as executed last (NoStatement while it shows none)
    threads,           \* the calls in flight on concurrent threads: position and locals
    connections,       \* the pooled connections the threads were handed: state of the
                       \* connection and of its cursor, and the statements running on it
    connector,         \* the Connector instance: its fields and the pools it has made
    call               \* the last public call: its arguments, driver events and outcome

draftVars == <<kind, model, table_name, select_columns, where_conditions,
               where_params, order_by, limit_value, offset_value, set_values,
               inserter>>
connVars  == <<connection, cursor, leased>>
cacheVars == <<fetch, global_lookups>>
threadVars == <<threads, connections>>
vars      == <<draftVars, connVars, cacheVars, logged, threadVars, connector, call>>

---------------------------------------------------------------------------
(* Bounds of the model *)

MaxClauses == 2     \* where() and order_by() calls accepted per builder
MaxBuildClauses == 1    \* the same, where SpecBuild feeds identifiers of every shape
MaxLeaked  == 2     \* connections left open before LazyInsert.insert is called again
MaxRows    == 1     \* rows the driver returns / reports as affected
MaxPools   == 2     \* pools one Connector creates

---------------------------------------------------------------------------
(* Python string operations *)

\* str.upper(), one character
UpperChar(c) ==
    CASE c = "l" -> "L" [] c = "i" -> "I" [] c = "k" -> "K" [] c = "e" -> "E"
      [] c = "n" -> "N" [] c = "o" -> "O" [] c = "t" -> "T" [] c = "r" -> "R"
      [] c = "a" -> "A" [] c = "b" -> "B" [] c = "s" -> "S" [] c = "c" -> "C"
      [] c = "d" -> "D"
      [] c = "U+0131" -> "I"
      [] c = "U+00E9" -> "U+00C9"
      [] OTHER -> c

\* str.upper()
Upper(s) == [i \in DOMAIN s |-> UpperChar(s[i])]

\* the characters str.isalnum() accepts, as far as the model's alphabet goes
AsciiAlnum == {"a", "b", "q", "r", "U", "P", "A", "B", "0", "1", "2"}
IsAlnumChar(c) == c \in AsciiAlnum \cup {"U+00E9", "U+00C9", "U+0131"}

\* str.isalnum(): non-empty and every character alphanumeric
IsAlnum(s) == Len(s) > 0 /\ \A i \in DOMAIN s : IsAlnumChar(s[i])

\* s.replace(c, '')
Remove(s, c) == LET Keep(x) == x # c IN SelectSeq(s, Keep)

\* sep.join(parts), parts a sequence of texts
RECURSIVE Join(_, _)
Join(parts, sep) ==
    IF parts = <<>> THEN <<>>
    ELSE IF Len(parts) = 1 THEN parts[1]
    ELSE parts[1] \o sep \o Join(Tail(parts), sep)

\* [x] * n
RECURSIVE Repeat(_, _)
Repeat(x, n) == IF n = 0 THEN <<>> ELSE <<x>> \o Repeat(x, n - 1)

\* str(n) for the small integers of the model
Digit(n) == CASE n = 0 -> "0" [] n = 1 -> "1" [] n = 2 -> "2" [] OTHER -> "9"

---------------------------------------------------------------------------
(* Validation, as the builders write it *)

OpEQ    == <<"=">>
OpNE    == <<"!", "=">>
OpGT    == <<">">>
OpLT    == <<"<">>
OpGE    == <<">", "=">>
OpLE    == <<"<", "=">>
OpLIKE  == <<"L", "I", "K", "E">>
OpIN    == <<"I", "N">>
OpNOTIN == <<"N", "O", "T", " ", "I", "N">>

allowed_operators == {OpEQ, OpNE, OpGT, OpLT, OpGE, OpLE, OpLIKE, OpIN, OpNOTIN}

\* operator in allowed_operators: the test without upper-casing
OperatorAllowedExact(operator) == operator \in allowed_operators

\* operator.upper() in allowed_operators
OperatorAllowed(operator) == Upper(operator) \in allowed_operators

\* operator.upper() in ['IN', 'NOT IN']
IsInOperator(operator) == Upper(operator) \in {OpIN, OpNOTIN}

\* column.replace('_', '').replace('.', '').isalnum()
ColumnValid(column) == IsAlnum(Remove(Remove(column, "_"), "."))

\* table_name.replace('_', '').isalnum()   (LazyUpdate, LazyDelete constructors)
TableValid(name) == IsAlnum(Remove(name, "_"))

\* column.replace('_', '').isalnum()   (LazyUpdate.set)
SetColumnValid(column) == IsAlnum(Remove(column, "_"))

\* the list test answering yes for every value
IsList_any(value) == TRUE

\* isinstance(value, (list, tuple))
IsList(value) == value.t = "list"

Scalar(n)  == [t |-> "scalar", items |-> <<n>>]
List(ns)   == [t |-> "list", items |-> ns]

\* the values limit() is given: Python int, bool and float objects
IntObj(n)   == [t |-> "int", v |-> n]
BoolObj(b)  == [t |-> "bool", v |-> IF b THEN 1 ELSE 0]
FloatObj(n) == [t |-> "float", v |-> n]

\* isinstance(x, int): bool is a subclass of int
IsInstanceInt(x) == x.t \in {"int", "bool"}

\* f"{x}" for an int or a bool
Format(x) == IF x.t = "bool" THEN (IF x.v = 1 THEN "True" ELSE "False") ELSE Digit(x.v)

\* the limit() check: not isinstance(x, int) or x < 0
LimitInvalid(x) == ~IsInstanceInt(x) \/ x.v < 0

---------------------------------------------------------------------------
(* Statement compilation *)

\* ', '.join(['%s'] * n)
Placeholders(n) == Join(Repeat(<<"%s">>, n), <<", ">>)

\* the fragment with the value written into the text instead of a placeholder
LazyQuery_whereFragment_inlined(column, value, operator) ==
    IF IsInOperator(operator)
    THEN column \o <<" ">> \o Upper(operator) \o <<" (">>
             \o Join([i \in DOMAIN value.items |-> <<Digit(value.items[i])>>], <<", ">>)
             \o <<")">>
    ELSE column \o <<" ">> \o operator \o <<" ", Digit(value.items[1])>>

\* LazyQuery.where: the fragment appended to _where_conditions
LazyQuery_whereFragment(column, value, operator) ==
    IF IsInOperator(operator)
    THEN column \o <<" ">> \o Upper(operator) \o <<" (">>
             \o Placeholders(Len(value.items)) \o <<")">>
    ELSE column \o <<" ">> \o operator \o <<" ", "%s">>

\* LazyUpdate.where: the fragment appended to _where_conditions
LazyUpdate_whereFragment(column, value, operator) ==
    IF IsInOperator(operator)
    THEN column \o <<" ">> \o Upper(operator) \o <<" (">>
             \o Placeholders(Len(value.items)) \o <<")">>
    ELSE column \o <<" ">> \o operator \o <<" ", "%s">>

\* LazyDelete.where: the fragment appended to _where_conditions
LazyDelete_whereFragment(column, value, operator) ==
    IF IsInOperator(operator)
    THEN column \o <<" ">> \o Upper(operator) \o <<" (">>
             \o Placeholders(Len(value.items)) \o <<")">>
    ELSE column \o <<" ">> \o operator \o <<" ", "%s">>

\* where appending the value as one parameter whatever the operator
WhereParams_appended(value, operator) == <<value>>

\* where: the values appended to _where_params (extend for IN, append otherwise)
WhereParams(value, operator) ==
    IF IsInOperator(operator)
    THEN [i \in DOMAIN value.items |-> Scalar(value.items[i])]
    ELSE <<value>>

\* LazyQuery.where: ValidationError or acceptance, in the order the code checks
LazyQuery_whereOutcome(column, value, operator) ==
    IF ~OperatorAllowed(operator) THEN "ValidationError"
    ELSE IF ~ColumnValid(column) THEN "ValidationError"
    ELSE IF IsInOperator(operator) /\ ~IsList(value) THEN "ValidationError"
    ELSE "ok"

\* LazyUpdate.where taking the operators its docstring lists: no IN, no NOT IN
LazyUpdate_whereOutcome_no_in(column, value, operator) ==
    IF ~OperatorAllowed(operator) \/ IsInOperator(operator) THEN "ValidationError"
    ELSE IF ~ColumnValid(column) THEN "ValidationError"
    ELSE "ok"

\* LazyUpdate.where
LazyUpdate_whereOutcome(column, value, operator) ==
    IF ~OperatorAllowed(operator) THEN "ValidationError"
    ELSE IF ~ColumnValid(column) THEN "ValidationError"
    ELSE IF IsInOperator(operator) /\ ~IsList(value) THEN "ValidationError"
    ELSE "ok"

\* LazyDelete.where
LazyDelete_whereOutcome(column, value, operator) ==
    IF ~OperatorAllowed(operator) THEN "ValidationError"
    ELSE IF ~ColumnValid(column) THEN "ValidationError"
    ELSE IF IsInOperator(operator) /\ ~IsList(value) THEN "ValidationError"
    ELSE "ok"

\* the WHERE clause made of the newest predicate alone
WhereClause_last_only(conds) ==
    IF conds # <<>> THEN <<" WHERE ">> \o conds[Len(conds)] ELSE <<>>

\* " WHERE p1 AND p2 ..." when predicates exist
WhereClause(conds) ==
    IF conds # <<>> THEN <<" WHERE ">> \o Join(conds, <<" AND ">>) ELSE <<>>

\* " LIMIT n" when a limit is set
LimitClause(lim) == IF lim # <<>> THEN <<" LIMIT ", Format(lim[1])>> ELSE <<>>

\* _build_query adding '*' to the columns whenever it runs
EffectiveColumns_adding(cols) == cols \o << <<"*">> >>

\* LazyQuery._build_query: the columns rendered ('*' when none were selected)
EffectiveColumns(cols) == IF cols = <<>> THEN << <<"*">> >> ELSE cols

\* LazyQuery._build_query with LIMIT written before ORDER BY
LazyQuery_build_query_limit_first(cols, tname, conds, ob, lim, off) ==
    <<"SELECT ">> \o Join(EffectiveColumns(cols), <<", ">>) \o <<" FROM ">> \o tname
        \o WhereClause(conds)
        \o LimitClause(lim)
        \o (IF ob # <<>> THEN <<" ORDER BY ">> \o Join(ob, <<", ">>) ELSE <<>>)
        \o (IF lim # <<>> /\ off # <<>> /\ off[1].v # 0
            THEN <<" OFFSET ", Format(off[1])>> ELSE <<>>)

\* LazyQuery._build_query
LazyQuery_build_query(cols, tname, conds, ob, lim, off) ==
    <<"SELECT ">> \o Join(EffectiveColumns(cols), <<", ">>) \o <<" FROM ">> \o tname
        \o WhereClause(conds)
        \o (IF ob # <<>> THEN <<" ORDER BY ">> \o Join(ob, <<", ">>) ELSE <<>>)
        \o LimitClause(lim)
        \o (IF lim # <<>> /\ off # <<>> /\ off[1].v # 0
            THEN <<" OFFSET ", Format(off[1])>> ELSE <<>>)

\* the count statement carrying the draft's LIMIT
LazyQuery_count_query_limited(tname, conds) ==
    <<"SELECT COUNT(*) FROM ">> \o tname \o WhereClause(conds) \o LimitClause(limit_value)

\* LazyQuery.count: the statement it builds
LazyQuery_count_query(tname, conds) ==
    <<"SELECT COUNT(*) FROM ">> \o tname \o WhereClause(conds)

\* LazyUpdate._build_query: the statement text
LazyUpdate_build_query(tname, sv, conds) ==
    <<"UPDATE ">> \o tname \o <<" SET ">>
        \o Join([i \in DOMAIN sv |-> sv[i].col \o <<" = ", "%s">>], <<", ">>)
        \o WhereClause(conds)

\* LazyUpdate._build_query with the WHERE values put before the SET values
LazyUpdate_build_params_where_first(sv, conds, wparams) ==
    (IF conds # <<>> THEN wparams ELSE <<>>) \o [i \in DOMAIN sv |-> sv[i].val]

\* LazyUpdate._build_query: the parameters, SET values then WHERE values
LazyUpdate_build_params(sv, conds, wparams) ==
    [i \in DOMAIN sv |-> sv[i].val] \o (IF conds # <<>> THEN wparams ELSE <<>>)

\* LazyDelete._build_query: the statement text
LazyDelete_build_query(tname, conds, lim) ==
    <<"DELETE FROM ">> \o tname \o WhereClause(conds) \o LimitClause(lim)

\* LazyDelete._build_query: the parameters
LazyDelete_build_params(conds, wparams) == IF conds # <<>> THEN wparams ELSE <<>>

---------------------------------------------------------------------------
(* The record of the last public call *)

NoValue == Scalar(0)

\* what the log shows of executed statements before the first one is logged
NoStatement == [any |-> FALSE, conds |-> <<>>]

\* the log after "Executing ...: <statement>" was written for these predicates
Logged(conds) == [any |-> TRUE, conds |-> conds]

NoCall ==
    [op |-> "none", idents |-> <<>>, operator |-> <<>>, arg |-> NoValue,
     confirm |-> FALSE, faults |-> {}, outcome |-> "none", events |-> <<>>,
     sql |-> <<>>, params |-> <<>>, data |-> <<>>, rows |-> <<>>, n |-> 0,
     hit |-> FALSE, args |-> <<>>, rowcount |-> 0, prior |-> NoStatement,
     returns |-> "nothing", committed |-> <<>>]

\* a builder or constructor call: no driver activity
BuilderCall(op, idents, outcome) ==
    [NoCall EXCEPT !.op = op, !.idents = idents, !.outcome = outcome]

---------------------------------------------------------------------------
(* Initial state: no builder constructed, no connection out, empty cache *)

NoModel  == [name |-> <<>>, arity |-> 0]
NoParams == [t |-> "None", items |-> <<>>]
NoFetch  == [live |-> FALSE, model |-> NoModel, query |-> <<>>, params |-> NoParams,
             use_cache |-> FALSE, key |-> <<>>, connection |-> "None"]
EmptyCache == [k \in {} |-> <<>>]
\* connection: "None", "open", or "closed" (a reference kept after close() raised)
NoInsert == [data |-> <<>>, query |-> <<>>, chunk_size |-> 0, connection |-> "None"]

\* no Connector constructed.  pool is self._connection_pool: 0 is None, n the n-th
\* pool this Connector made; created counts the pools made; password tells the
\* password given from an Azure token stored in its place
NoConnector == [live |-> FALSE, is_azure_server |-> FALSE, password |-> "given",
                pool |-> 0, created |-> 0]

\* the threads making concurrent calls, and the names of the connections the pool
\* hands them: each thread makes one call, which takes at most one connection
Threads   == {1, 2}
ConnName(t) == IF t = 1 THEN "c1" ELSE "c2"
ConnNames == {ConnName(t) : t \in Threads}

\* a thread that has not called yet.  pc names the source line the call stands at;
\* own says whether the call runs on an instance made for it or on the one shared
\* instance; conn and cur are the _connection and _cursor of an instance of its own;
\* running is the cursor its statement is running on; keys is keys_to_remove; wrote
\* tells whether it was the last to write the cache
IdleThread ==
    [pc |-> "idle", op |-> "none", own |-> FALSE, arg |-> <<>>, conn |-> "None",
     cur |-> "None", running |-> "None", keys |-> {}, rows |-> <<>>,
     outcome |-> "none", hit |-> FALSE, wrote |-> FALSE]

\* a connection the pool has not handed out yet: state is "pooled", "open" or
\* "closed", cursor is "none", "open" or "closed", running the threads whose
\* statement is running on its cursor
NoConnection == [state |-> "pooled", cursor |-> "none", running |-> {}]

Init ==
    /\ kind = "none"
    /\ model = NoModel
    /\ table_name = <<>>
    /\ select_columns = <<>>
    /\ where_conditions = <<>>
    /\ where_params = <<>>
    /\ order_by = <<>>
    /\ limit_value = <<>>
    /\ offset_value = <<>>
    /\ set_values = <<>>
    /\ inserter = NoInsert
    /\ connection = "None"
    /\ cursor = "None"
    /\ fetch = NoFetch
    /\ global_lookups = EmptyCache
    /\ leased = 0
    /\ logged = NoStatement
    /\ threads = [t \in Threads |-> IdleThread]
    /\ connections = [c \in ConnNames |-> NoConnection]
    /\ connector = NoConnector
    /\ call = NoCall

---------------------------------------------------------------------------
(* Constructors.  pool = FALSE is connection_pool=None; tn = <<>> is a     *)
(* table name of None or ''.                                              *)

\* LazyQuery.__init__
LazyQuery_init(m, pool, tn) ==
    /\ kind = "none"
    /\ IF ~pool
       THEN /\ call' = BuilderCall("LazyQuery", <<tn>>, "ValidationError")
            /\ UNCHANGED <<draftVars, connVars, logged, cacheVars, threadVars, connector>>
       ELSE /\ kind' = "query"
            /\ model' = m
            /\ table_name' = IF tn # <<>> THEN tn ELSE m.name
            /\ call' = BuilderCall("LazyQuery", <<tn>>, "ok")
            /\ UNCHANGED <<select_columns, where_conditions, where_params, order_by,
                           limit_value, offset_value, set_values,
                           connVars, logged, cacheVars, threadVars, connector,
                           inserter>>

\* LazyUpdate.__init__
LazyUpdate_init(tn, pool) ==
    /\ kind = "none"
    /\ IF tn = <<>> \/ ~pool \/ ~TableValid(tn)
       THEN /\ call' = BuilderCall("LazyUpdate", <<tn>>, "ValidationError")
            /\ UNCHANGED <<draftVars, connVars, logged, cacheVars, threadVars, connector>>
       ELSE /\ kind' = "update"
            /\ table_name' = tn
            /\ call' = BuilderCall("LazyUpdate", <<tn>>, "ok")
            /\ UNCHANGED <<model, select_columns, where_conditions, where_params,
                           order_by, limit_value, offset_value, set_values,
                           connVars, logged, cacheVars, threadVars, connector, inserter>>

\* LazyDelete.__init__
LazyDelete_init(tn, pool) ==
    /\ kind = "none"
    /\ IF tn = <<>> \/ ~pool \/ ~TableValid(tn)
       THEN /\ call' = BuilderCall("LazyDelete", <<tn>>, "ValidationError")
            /\ UNCHANGED <<draftVars, connVars, logged, cacheVars, threadVars, connector>>
       ELSE /\ kind' = "delete"
            /\ table_name' = tn
            /\ call' = BuilderCall("LazyDelete", <<tn>>, "ok")
            /\ UNCHANGED <<model, select_columns, where_conditions, where_params,
                           order_by, limit_value, offset_value, set_values,
                           connVars, logged, cacheVars, threadVars, connector, inserter>>

---------------------------------------------------------------------------
(* Builder calls *)

\* LazyQuery.select_all
LazyQuery_select_all ==
    /\ kind = "query"
    /\ select_columns' = << <<"*">> >>
    /\ call' = BuilderCall("select_all", <<>>, "ok")
    /\ UNCHANGED <<kind, model, table_name, where_conditions, where_params, order_by,
                   limit_value, offset_value, set_values,
                   connVars, logged, cacheVars, threadVars, connector,
                   inserter>>

\* LazyQuery.select(*columns)
LazyQuery_select(columns) ==
    /\ kind = "query"
    /\ IF columns = <<>>
       THEN /\ call' = BuilderCall("select", columns, "ValidationError")
            /\ UNCHANGED select_columns
       ELSE /\ call' = BuilderCall("select", columns, "ok")
            /\ select_columns' = columns
    /\ UNCHANGED <<kind, model, table_name, where_conditions, where_params, order_by,
                   limit_value, offset_value, set_values,
                   connVars, logged, cacheVars, threadVars, connector,
                   inserter>>

\* the directions order_by accepts, after upper-casing
DirASC  == <<"A", "S", "C">>
DirDESC == <<"D", "E", "S", "C">>

\* LazyQuery.order_by(column, direction)
LazyQuery_order_by(column, direction) ==
    /\ kind = "query"
    /\ Len(where_conditions) + Len(order_by) < MaxClauses
    /\ LET dir == Upper(direction)
           outcome == IF dir \notin {DirASC, DirDESC} THEN "ValidationError"
                      ELSE IF ~ColumnValid(column) THEN "ValidationError"
                      ELSE "ok"
       IN /\ call' = [BuilderCall("order_by", <<column>>, outcome)
                          EXCEPT !.operator = direction]
          /\ order_by' = IF outcome = "ok"
                         THEN Append(order_by, column \o <<" ">> \o dir)
                         ELSE order_by
    /\ UNCHANGED <<kind, model, table_name, select_columns, where_conditions,
                   where_params, limit_value, offset_value, set_values, connVars,
                   logged, cacheVars, threadVars, connector, inserter>>

\* a limit() call's record
LimitCall(args, outcome) == [BuilderCall("limit", <<>>, outcome) EXCEPT !.args = args]

\* LazyQuery.limit(limit, offset)
LazyQuery_limit(limit, offset) ==
    /\ kind = "query"
    /\ IF LimitInvalid(limit) \/ LimitInvalid(offset)
       THEN /\ call' = LimitCall(<<limit, offset>>, "ValidationError")
            /\ UNCHANGED <<limit_value, offset_value>>
       ELSE /\ call' = LimitCall(<<limit, offset>>, "ok")
            /\ limit_value' = <<limit>>
            /\ offset_value' = <<offset>>
    /\ UNCHANGED <<kind, model, table_name, select_columns, where_conditions,
                   where_params, order_by, set_values,
                   connVars, logged, cacheVars, threadVars, connector, inserter>>

\* LazyDelete.limit(limit)
LazyDelete_limit(limit) ==
    /\ kind = "delete"
    /\ IF LimitInvalid(limit)
       THEN /\ call' = LimitCall(<<limit>>, "ValidationError")
            /\ UNCHANGED limit_value
       ELSE /\ call' = LimitCall(<<limit>>, "ok")
            /\ limit_value' = <<limit>>
    /\ UNCHANGED <<kind, model, table_name, select_columns, where_conditions,
                   where_params, order_by, offset_value, set_values, connVars,
                   logged, cacheVars, threadVars, connector, inserter>>

\* the call record of a where(column, value, operator)
WhereCall(column, value, operator, outcome) ==
    [BuilderCall("where", <<column>>, outcome) EXCEPT !.operator = operator, !.arg = value]

\* LazyQuery.where
LazyQuery_where(column, value, operator) ==
    /\ kind = "query"
    /\ Len(where_conditions) + Len(order_by) < MaxClauses
    /\ LET outcome == LazyQuery_whereOutcome(column, value, operator) IN
       /\ call' = WhereCall(column, value, operator, outcome)
       /\ IF outcome = "ok"
          THEN /\ where_conditions' =
                      Append(where_conditions, LazyQuery_whereFragment(column, value, operator))
               /\ where_params' = where_params \o WhereParams(value, operator)
          ELSE UNCHANGED <<where_conditions, where_params>>
    /\ UNCHANGED <<kind, model, table_name, select_columns, order_by, limit_value,
                   offset_value, set_values,
                   connVars, logged, cacheVars, threadVars, connector, inserter>>

\* LazyUpdate.where
LazyUpdate_where(column, value, operator) ==
    /\ kind = "update"
    /\ Len(where_conditions) + Len(order_by) < MaxClauses
    /\ LET outcome == LazyUpdate_whereOutcome(column, value, operator) IN
       /\ call' = WhereCall(column, value, operator, outcome)
       /\ IF outcome = "ok"
          THEN /\ where_conditions' =
                      Append(where_conditions, LazyUpdate_whereFragment(column, value, operator))
               /\ where_params' = where_params \o WhereParams(value, operator)
          ELSE UNCHANGED <<where_conditions, where_params>>
    /\ UNCHANGED <<kind, model, table_name, select_columns, order_by, limit_value,
                   offset_value, set_values,
                   connVars, logged, cacheVars, threadVars, connector, inserter>>

\* LazyDelete.where
LazyDelete_where(column, value, operator) ==
    /\ kind = "delete"
    /\ Len(where_conditions) + Len(order_by) < MaxClauses
    /\ LET outcome == LazyDelete_whereOutcome(column, value, operator) IN
       /\ call' = WhereCall(column, value, operator, outcome)
       /\ IF outcome = "ok"
          THEN /\ where_conditions' =
                      Append(where_conditions, LazyDelete_whereFragment(column, value, operator))
               /\ where_params' = where_params \o WhereParams(value, operator)
          ELSE UNCHANGED <<where_conditions, where_params>>
    /\ UNCHANGED <<kind, model, table_name, select_columns, order_by, limit_value,
                   offset_value, set_values,
                   connVars, logged, cacheVars, threadVars, connector, inserter>>

\* dict.update: a present key keeps its place and takes the new value, a new key is appended
RECURSIVE DictUpdate(_, _)
DictUpdate(d, values) ==
    IF values = <<>> THEN d
    ELSE LET kv == Head(values)
             at == {i \in DOMAIN d : d[i].col = kv.col}
             d1 == IF at = {} THEN Append(d, kv)
                   ELSE [i \in DOMAIN d |-> IF i \in at THEN kv ELSE d[i]]
         IN DictUpdate(d1, Tail(values))

\* set() writing each column as soon as it passed the check, up to the first bad one
LazyUpdate_set_values_eager(d, values) ==
    LET bad == {i \in DOMAIN values : ~SetColumnValid(values[i].col)}
    IN DictUpdate(d, SubSeq(values, 1,
                            IF bad = {} THEN Len(values)
                            ELSE (CHOOSE i \in bad : \A j \in bad : i <= j) - 1))

\* self._set_values after set(values): every column is checked first (lines 76 to
\* 78), and only then the dict is updated (line 80)
LazyUpdate_set_values(d, values) ==
    IF values = <<>> \/ \E i \in DOMAIN values : ~SetColumnValid(values[i].col)
    THEN d ELSE DictUpdate(d, values)

\* LazyUpdate.set(values): values is a dict, given as its [col, val] items in order
LazyUpdate_set(values) ==
    /\ kind = "update"
    /\ LET cols == [i \in DOMAIN values |-> values[i].col]
           bad  == values = <<>> \/ \E i \in DOMAIN values : ~SetColumnValid(values[i].col)
       IN /\ call' = BuilderCall("set", cols, IF bad THEN "ValidationError" ELSE "ok")
          /\ set_values' = LazyUpdate_set_values(set_values, values)
    /\ UNCHANGED <<kind, model, table_name, select_columns, where_conditions, where_params,
                   order_by, limit_value, offset_value,
                   connVars, logged, cacheVars, threadVars, connector, inserter>>

---------------------------------------------------------------------------
(* _build_query, called on its own *)

\* a _build_query call's record: the text and the parameters that go with it
CompileCall(op, outcome, sql, params) ==
    [NoCall EXCEPT !.op = op, !.outcome = outcome, !.sql = sql, !.params = params]

\* LazyQuery._build_query(): it stores ['*'] in the draft when no column was selected
LazyQuery_compile ==
    /\ kind = "query"
    /\ select_columns' = EffectiveColumns(select_columns)
    /\ call' = CompileCall("query._build_query", "ok",
                           LazyQuery_build_query(select_columns, table_name,
                                                 where_conditions, order_by,
                                                 limit_value, offset_value),
                           where_params)
    /\ UNCHANGED <<kind, model, table_name, where_conditions, where_params, order_by,
                   limit_value, offset_value, set_values,
                   connVars, logged, cacheVars, threadVars, connector, inserter>>

\* LazyUpdate._build_query()
LazyUpdate_compile ==
    /\ kind = "update"
    /\ call' = IF set_values = <<>>
               THEN CompileCall("update._build_query", "ValidationError", <<>>, <<>>)
               ELSE CompileCall("update._build_query", "ok",
                                LazyUpdate_build_query(table_name, set_values,
                                                       where_conditions),
                                LazyUpdate_build_params(set_values, where_conditions,
                                                        where_params))
    /\ UNCHANGED <<draftVars, connVars, logged, cacheVars, threadVars, connector>>

\* LazyDelete._build_query()
LazyDelete_compile ==
    /\ kind = "delete"
    /\ call' = CompileCall("delete._build_query", "ok",
                           LazyDelete_build_query(table_name, where_conditions,
                                                  limit_value),
                           LazyDelete_build_params(where_conditions, where_params))
    /\ UNCHANGED <<draftVars, connVars, logged, cacheVars, threadVars, connector>>

---------------------------------------------------------------------------
(* Terminal calls.  F is the set of driver calls that raise mysql Error    *)
(* during the call; events lists the pool / driver calls made, in order.   *)

\* connection_pool.get_connection() returns a connection.  It raises PoolError, a
\* subclass of the driver's Error, when the pool is exhausted ("pool_exhausted"), and
\* another Error when no connection can be made ("get_connection").
Acquires(F) == "get_connection" \notin F /\ "pool_exhausted" \notin F

\* _cleanup giving up after the cursor
CleanupEvents_cursor_only(cur, conn) ==
    IF cur # "None" THEN <<"cursor.close">>
    ELSE IF conn # "None" THEN <<"close">> ELSE <<>>

\* _cleanup closing the connection before the cursor
CleanupEvents_connection_first(cur, conn) ==
    (IF conn # "None" THEN <<"close">> ELSE <<>>)
        \o (IF cur # "None" THEN <<"cursor.close">> ELSE <<>>)

\* _cleanup: close the cursor, then the connection, when the builder holds them;
\* an exception of either close is logged and swallowed
CleanupEvents(cur, conn) ==
    (IF cur # "None" THEN <<"cursor.close">> ELSE <<>>)
        \o (IF conn # "None" THEN <<"close">> ELSE <<>>)

\* how often e occurs in a sequence of events
RECURSIVE Count(_, _)
Count(events, e) ==
    IF events = <<>> THEN 0
    ELSE (IF Head(events) = e THEN 1 ELSE 0) + Count(Tail(events), e)

\* LazyDelete.execute with its safety check left out
LazyDelete_unguarded(conds, confirm_delete_all) == FALSE

\* the safety check at the head of LazyDelete.execute
DeleteAllBlocked(conds, confirm_delete_all) == conds = <<>> /\ ~confirm_delete_all

\* a terminal call's record; prior is what the log showed when the call began
TerminalCall(op, F, outcome, events, sql, params) ==
    [NoCall EXCEPT !.op = op, !.faults = F, !.outcome = outcome, !.events = events,
                   !.sql = sql, !.params = params, !.prior = logged]

\* LazyUpdate.execute(), rowcount the driver's affected-row count.
\* It takes no confirmation argument and does not look at the predicates.
LazyUpdate_execute(F, rowcount) ==
    /\ kind = "update"
    /\ LET acq     == Acquires(F)
           conn1   == IF acq THEN "open" ELSE connection
           cur     == acq /\ "cursor" \notin F
           cur1    == IF cur THEN "open" ELSE cursor
           built   == cur /\ set_values # <<>>      \* else _build_query raises ValidationError
           exe     == built /\ "execute" \notin F
           com     == exe /\ "commit" \notin F
           invalid == cur /\ ~built
           rb      == ~com /\ ~invalid /\ conn1 # "None"    \* except Error: rollback
           tried   == <<"get_connection">> \o (IF acq THEN <<"cursor">> ELSE <<>>)
                        \o (IF built THEN <<"execute">> ELSE <<>>)
                        \o (IF exe THEN <<"commit">> ELSE <<>>)
           events  == tried \o (IF rb THEN <<"rollback">> ELSE <<>>)
                        \o CleanupEvents(cur1, conn1)
           outcome == IF com THEN "ok"
                      ELSE IF invalid THEN "ValidationError"
                      ELSE IF rb /\ "rollback" \in F THEN "Error"
                      ELSE "QueryError"
           sql     == IF built
                      THEN LazyUpdate_build_query(table_name, set_values, where_conditions)
                      ELSE <<>>
           params  == IF built
                      THEN LazyUpdate_build_params(set_values, where_conditions, where_params)
                      ELSE <<>>
       IN /\ call' = [TerminalCall("update.execute", F, outcome, events, sql, params)
                        EXCEPT !.n = IF com THEN rowcount ELSE 0,
                               !.rowcount = rowcount]
          /\ connection' = "None"
          /\ cursor' = "None"
          /\ leased' = leased + (IF acq THEN 1 ELSE 0) - Count(events, "close")
          /\ logged' = IF built THEN Logged(where_conditions) ELSE logged
    /\ UNCHANGED <<draftVars, cacheVars, threadVars, connector>>

\* LazyDelete.execute(confirm_delete_all), rowcount the driver's affected-row count
LazyDelete_execute(confirm_delete_all, F, rowcount) ==
    /\ kind = "delete"
    /\ IF DeleteAllBlocked(where_conditions, confirm_delete_all)
       THEN /\ call' = [TerminalCall("delete.execute", F, "ValidationError", <<>>, <<>>, <<>>)
                          EXCEPT !.confirm = confirm_delete_all]
            /\ UNCHANGED <<connVars, logged>>
       ELSE
       LET acq     == Acquires(F)
           conn1   == IF acq THEN "open" ELSE connection
           cur     == acq /\ "cursor" \notin F
           cur1    == IF cur THEN "open" ELSE cursor
           exe     == cur /\ "execute" \notin F
           com     == exe /\ "commit" \notin F
           rb      == ~com /\ conn1 # "None"                \* except Error: rollback
           tried   == <<"get_connection">> \o (IF acq THEN <<"cursor">> ELSE <<>>)
                        \o (IF cur THEN <<"execute">> ELSE <<>>)
                        \o (IF exe THEN <<"commit">> ELSE <<>>)
           events  == tried \o (IF rb THEN <<"rollback">> ELSE <<>>)
                        \o CleanupEvents(cur1, conn1)
           outcome == IF com THEN "ok"
                      ELSE IF rb /\ "rollback" \in F THEN "Error"
                      ELSE "QueryError"
           sql     == IF cur
                      THEN LazyDelete_build_query(table_name, where_conditions, limit_value)
                      ELSE <<>>
           params  == IF cur THEN LazyDelete_build_params(where_conditions, where_params)
                      ELSE <<>>
       IN /\ call' = [TerminalCall("delete.execute", F, outcome, events, sql, params)
                        EXCEPT !.confirm = confirm_delete_all,
                               !.n = IF com THEN rowcount ELSE 0,
                               !.rowcount = rowcount]
          /\ connection' = "None"
          /\ cursor' = "None"
          /\ leased' = leased + (IF acq THEN 1 ELSE 0) - Count(events, "close")
          /\ logged' = IF cur THEN Logged(where_conditions) ELSE logged
    /\ UNCHANGED <<draftVars, cacheVars, threadVars, connector>>

\* model(*row) for each row: the records, when every row has the model's field count
MapRows(m, data) == [i \in DOMAIN data |-> [type |-> m.name, fields |-> data[i]]]

\* model(*row) raises TypeError for some row
MappingFails(m, data) == \E i \in DOMAIN data : Len(data[i]) # m.arity

\* the error LazyQuery.to_list raises when mapping a row fails
LazyQuery_mapping_error == "QueryError"

\* the error fetch_lookups raises when mapping a row fails
fetch_lookups_mapping_error == "QueryError"

\* first() taking the last record of the list
first_result_last(results) == IF results # <<>> THEN <<results[Len(results)]>> ELSE <<>>

\* LazyQuery.first: results[0] if results else None (<<>> is None)
first_result(results) == IF results # <<>> THEN <<results[1]>> ELSE <<>>

\* LazyQuery.to_list() run with _limit_value = lim; data the rows fetchall returns
to_list(op, lim, F, data) ==
    /\ kind = "query"
    /\ LET \* _ensure_connection, outside the try block
           need    == connection = "None"
           acq     == need /\ Acquires(F)
           conn1   == IF acq THEN "open" ELSE connection
           cur     == acq /\ "cursor" \notin F
           cur1    == IF cur THEN "open" ELSE cursor
           ensured == ~need \/ cur
           ensureEv == IF need
                       THEN <<"get_connection">> \o (IF acq THEN <<"cursor">> ELSE <<>>)
                       ELSE <<>>
           \* the try block; self._cursor is None raises AttributeError
           hasCur  == cur1 # "None"
           exe     == hasCur /\ "execute" \notin F
           fet     == exe /\ "fetch" \notin F
           mapped  == fet /\ ~MappingFails(model, data)
           tryEv   == IF hasCur
                      THEN <<"execute">> \o (IF exe THEN <<"fetch">> ELSE <<>>)
                      ELSE <<>>
           cols1   == EffectiveColumns(select_columns)
           sql     == LazyQuery_build_query(cols1, table_name, where_conditions, order_by,
                                            lim, offset_value)
       IN IF ~ensured
          THEN /\ call' = TerminalCall(op, F, "QueryError", ensureEv, <<>>, <<>>)
               /\ connection' = conn1
               /\ cursor' = cur1
               /\ leased' = leased + (IF acq THEN 1 ELSE 0)
               /\ UNCHANGED <<select_columns, logged>>
          ELSE /\ call' =
                    [TerminalCall(op, F,
                                  IF ~hasCur THEN "AttributeError"
                                  ELSE IF ~fet THEN "QueryError"
                                  ELSE IF ~mapped THEN LazyQuery_mapping_error
                                  ELSE "ok",
                                  ensureEv \o tryEv \o CleanupEvents(cur1, conn1),
                                  sql, where_params)
                       EXCEPT !.data = IF fet THEN data ELSE <<>>,
                              !.rows = IF ~mapped THEN <<>>
                                       ELSE IF op = "first"
                                       THEN first_result(MapRows(model, data))
                                       ELSE MapRows(model, data),
                              !.returns = IF ~mapped THEN "nothing"
                                          ELSE IF op = "to_list" THEN "list"
                                          ELSE IF data # <<>> THEN "record"
                                          ELSE "None"]
               /\ connection' = "None"
               /\ cursor' = "None"
               /\ leased' = leased + (IF acq THEN 1 ELSE 0)
                              - (IF conn1 # "None" THEN 1 ELSE 0)
               /\ select_columns' = cols1
               /\ logged' = Logged(where_conditions)
    /\ UNCHANGED <<kind, model, table_name, where_conditions, where_params, order_by,
                   offset_value, set_values, cacheVars, threadVars, connector, inserter>>

\* LazyQuery.to_list()
LazyQuery_to_list(F, data) ==
    /\ to_list("to_list", limit_value, F, data)
    /\ UNCHANGED limit_value

\* LazyQuery.first(): self._limit_value = 1, then to_list()
LazyQuery_first(F, data) ==
    /\ to_list("first", <<IntObj(1)>>, F, data)
    /\ limit_value' = <<IntObj(1)>>

\* _ensure_connection taking a connection whether or not the builder holds one
ensure_connection_needed_always(conn) == TRUE

\* _ensure_connection, line 62: if self._connection is None
ensure_connection_needed(conn) == conn = "None"

\* LazyQuery.__enter__(): _ensure_connection(), and nothing else
LazyQuery_enter(F) ==
    /\ kind = "query"
    /\ LET need == ensure_connection_needed(connection)
           acq  == need /\ Acquires(F)
           cur  == acq /\ "cursor" \notin F
       IN /\ call' = TerminalCall("__enter__", F,
                                  IF need /\ ~cur THEN "QueryError" ELSE "ok",
                                  IF need
                                  THEN <<"get_connection">>
                                          \o (IF acq THEN <<"cursor">> ELSE <<>>)
                                  ELSE <<>>,
                                  <<>>, <<>>)
          /\ connection' = IF acq THEN "open" ELSE connection
          /\ cursor' = IF cur THEN "open" ELSE cursor
          /\ leased' = leased + (IF acq THEN 1 ELSE 0)
    /\ UNCHANGED <<draftVars, logged, cacheVars, threadVars, connector>>

\* LazyQuery.__exit__(): _cleanup(), whose close failures are logged and swallowed
LazyQuery_exit(F) ==
    /\ kind = "query"
    /\ call' = TerminalCall("__exit__", F, "ok", CleanupEvents(cursor, connection),
                            <<>>, <<>>)
    /\ connection' = "None"
    /\ cursor' = "None"
    /\ leased' = leased - (IF connection # "None" THEN 1 ELSE 0)
    /\ UNCHANGED <<draftVars, logged, cacheVars, threadVars, connector>>

\* LazyQuery.count(), result the row fetchone returns (<<>> is None)
LazyQuery_count(F, result) ==
    /\ kind = "query"
    /\ LET need    == connection = "None"
           acq     == need /\ Acquires(F)
           conn1   == IF acq THEN "open" ELSE connection
           cur     == acq /\ "cursor" \notin F
           cur1    == IF cur THEN "open" ELSE cursor
           ensured == ~need \/ cur
           ensureEv == IF need
                       THEN <<"get_connection">> \o (IF acq THEN <<"cursor">> ELSE <<>>)
                       ELSE <<>>
           hasCur  == cur1 # "None"
           exe     == hasCur /\ "execute" \notin F
           fet     == exe /\ "fetch" \notin F
           tryEv   == IF hasCur
                      THEN <<"execute">> \o (IF exe THEN <<"fetch">> ELSE <<>>)
                      ELSE <<>>
           sql     == LazyQuery_count_query(table_name, where_conditions)
       IN IF ~ensured
          THEN /\ call' = TerminalCall("count", F, "QueryError", ensureEv, <<>>, <<>>)
               /\ connection' = conn1
               /\ cursor' = cur1
               /\ leased' = leased + (IF acq THEN 1 ELSE 0)
               /\ UNCHANGED logged
          ELSE /\ call' =
                    [TerminalCall("count", F,
                                  IF ~hasCur THEN "AttributeError"
                                  ELSE IF ~fet THEN "QueryError"
                                  ELSE "ok",
                                  ensureEv \o tryEv \o CleanupEvents(cur1, conn1),
                                  sql, where_params)
                       EXCEPT !.n = IF fet /\ result # <<>> THEN result[1] ELSE 0,
                              !.data = IF fet /\ result # <<>> THEN <<result>> ELSE <<>>,
                              !.returns = IF fet THEN "int" ELSE "nothing"]
               /\ connection' = "None"
               /\ cursor' = "None"
               /\ leased' = leased + (IF acq THEN 1 ELSE 0)
                              - (IF conn1 # "None" THEN 1 ELSE 0)
               /\ logged' = Logged(where_conditions)
    /\ UNCHANGED <<draftVars, cacheVars, threadVars, connector>>

---------------------------------------------------------------------------
(* LazyInsert *)

\* table_name.replace('_', '').isalnum()   (LazyInsert constructor)
LazyInsert_TableValid(name) == IsAlnum(Remove(name, "_"))

\* LazyInsert.__init__; data = <<>> is None or an empty list, query = <<>> is None or ''
LazyInsert_init(tn, pool, chunk_size, data, query) ==
    /\ kind = "none"
    /\ IF tn = <<>> \/ ~pool \/ chunk_size <= 0 \/ ~LazyInsert_TableValid(tn)
       THEN /\ call' = BuilderCall("LazyInsert", <<tn>>, "ValidationError")
            /\ UNCHANGED <<draftVars, connVars, logged, cacheVars, threadVars, connector>>
       ELSE /\ kind' = "insert"
            /\ table_name' = tn
            /\ inserter' = [data |-> data, query |-> query, chunk_size |-> chunk_size,
                            connection |-> "None"]
            /\ call' = BuilderCall("LazyInsert", <<tn>>, "ok")
            /\ UNCHANGED <<model, select_columns, where_conditions, where_params,
                           order_by, limit_value, offset_value, set_values,
                           connVars, logged, cacheVars, threadVars, connector>>

\* range(0, len(data), chunk_size): the values of i the loop takes
ChunkStarts(n, chunk_size) == {i \in 0..(n - 1) : i % chunk_size = 0}

\* the number of chunks: one for every value of i
ChunkCount(n, chunk_size) == Cardinality(ChunkStarts(n, chunk_size))

\* data[i:i + chunk_size] taking one row too many
Chunk_overlapping(data, i, chunk_size) ==
    SubSeq(data, i + 1, IF i + chunk_size + 1 < Len(data) THEN i + chunk_size + 1
                        ELSE Len(data))

\* data[i:i + chunk_size]
Chunk(data, i, chunk_size) ==
    SubSeq(data, i + 1, IF i + chunk_size < Len(data) THEN i + chunk_size ELSE Len(data))

\* the chunks handed to executemany, the first upto of them, in loop order
Batches(data, chunk_size, upto) ==
    [k \in 1..upto |-> Chunk(data, (k - 1) * chunk_size, chunk_size)]

\* the rows the database keeps once the commits of the first upto chunks returned
\* (line 158): a later rollback undoes only what was sent after the last commit
Committed(data, chunk_size, upto) ==
    SubSeq(data, 1, IF upto * chunk_size < Len(data) THEN upto * chunk_size
                    ELSE Len(data))

\* the driver calls of the chunk loop when the loop breaks off in chunk failing
\* (0: never), there at stage "extract" (extract_row), "execute" (executemany) or
\* "commit"
RECURSIVE ChunkEvents(_, _, _, _)
ChunkEvents(i, chunks, failing, stage) ==
    IF i > chunks THEN <<>>
    ELSE IF i = failing
         THEN CASE stage = "extract" -> <<>>
                [] stage = "execute" -> <<"executemany">>
                [] OTHER             -> <<"executemany", "commit">>
         ELSE <<"executemany", "commit">>
                  \o ChunkEvents(i + 1, chunks, failing, stage)

\* LazyInsert.insert(); a failure of extract_row, executemany or commit named in F
\* strikes in chunk number at.  extract_row raises what getattr raised (AttributeError
\* for a record that is no dataclass instance), which is no driver Error.
LazyInsert_insert(F, at) ==
    /\ kind = "insert"
    /\ leased < MaxLeaked
    /\ IF inserter.data = <<>> \/ inserter.query = <<>>
       THEN /\ call' = TerminalCall("insert", F, "ValidationError", <<>>, <<>>, <<>>)
            /\ UNCHANGED <<inserter, leased>>
       ELSE
       LET acq     == Acquires(F)
           conn1   == IF acq THEN "open" ELSE inserter.connection
           cur     == acq /\ "cursor" \notin F
           chunks  == ChunkCount(Len(inserter.data), inserter.chunk_size)
           stage   == IF "extract" \in F THEN "extract"
                      ELSE IF "execute" \in F THEN "execute" ELSE "commit"
           failing == IF cur /\ at <= chunks /\ F \cap {"extract", "execute", "commit"} # {}
                      THEN at ELSE 0
           loopEv  == IF cur THEN ChunkEvents(1, chunks, failing, stage) ELSE <<>>
           sent    == IF ~cur THEN 0
                      ELSE IF failing = 0 THEN chunks
                      ELSE IF stage = "extract" THEN failing - 1 ELSE failing
           kept    == IF ~cur THEN 0 ELSE IF failing = 0 THEN chunks ELSE failing - 1
           extractRaised == failing # 0 /\ stage = "extract"
           raised  == ~cur \/ (failing # 0 /\ stage # "extract")    \* a driver Error
           rb      == raised /\ conn1 # "None"              \* except Error: rollback
           \* finally: cursor.close() and connection.close(), neither guarded
           curClose  == cur
           connClose == conn1 # "None" /\ ~(curClose /\ "cursor.close" \in F)
           released  == connClose /\ "close" \notin F
           events  == <<"get_connection">> \o (IF acq THEN <<"cursor">> ELSE <<>>)
                        \o loopEv
                        \o (IF rb THEN <<"rollback">> ELSE <<>>)
                        \o (IF curClose THEN <<"cursor.close">> ELSE <<>>)
                        \o (IF connClose THEN <<"close">> ELSE <<>>)
           outcome == IF curClose /\ "cursor.close" \in F THEN "Error"
                      ELSE IF connClose /\ "close" \in F THEN "Error"
                      ELSE IF rb /\ "rollback" \in F THEN "Error"
                      ELSE IF extractRaised THEN "AttributeError"
                      ELSE IF raised THEN "QueryError"
                      ELSE "ok"
       IN /\ call' = [TerminalCall("insert", F, outcome, events,
                                   IF cur THEN inserter.query ELSE <<>>, <<>>)
                        EXCEPT !.n = IF outcome = "ok" THEN Len(inserter.data) ELSE 0,
                               !.data = Batches(inserter.data, inserter.chunk_size, sent),
                               !.committed = Committed(inserter.data,
                                                       inserter.chunk_size, kept)]
          \* a close() that raised leaves the reference in place: "closed"
          /\ inserter' = [inserter EXCEPT
                            !.connection = IF released THEN "None"
                                           ELSE IF connClose THEN "closed"
                                           ELSE conn1]
          /\ leased' = leased + (IF acq THEN 1 ELSE 0)
                         - (IF connClose /\ conn1 = "open" THEN 1 ELSE 0)
    /\ UNCHANGED <<kind, model, table_name, select_columns, where_conditions,
                   where_params, order_by, limit_value, offset_value, set_values,
                   connection, cursor, logged, cacheVars, threadVars, connector>>

---------------------------------------------------------------------------
(* LazyFetch and its process-wide cache *)

\* str(params): None, or a tuple of small integers
ParamsRepr(params) ==
    IF params.t = "None" THEN <<"N", "o", "n", "e">>
    ELSE <<"(">> \o Join([i \in DOMAIN params.items |-> <<Digit(params.items[i])>>],
                         <<",", " ">>)
               \o (IF Len(params.items) = 1 THEN <<",">> ELSE <<>>) \o <<")">>

\* f"{model.__name__}_{query}_{params}"
CacheKey(m, query, params) == m.name \o <<"_">> \o query \o <<"_">> \o ParamsRepr(params)

\* key.startswith(prefix)
StartsWith(key, prefix) ==
    Len(prefix) <= Len(key) /\ SubSeq(key, 1, Len(prefix)) = prefix

\* LazyFetch._global_lookups[key] = data
CachePut(cache, key, entry) ==
    [k \in DOMAIN cache \cup {key} |-> IF k = key THEN entry ELSE cache[k]]

\* the cache without the keys in gone
CacheWithout(cache, gone) == [k \in DOMAIN cache \ gone |-> cache[k]]

\* LazyFetch.__init__
LazyFetch_init(m, query, pool, params, use_cache) ==
    /\ IF ~pool \/ query = <<>>
       THEN /\ call' = BuilderCall("LazyFetch", <<>>, "ValidationError")
            /\ UNCHANGED fetch
       ELSE /\ call' = BuilderCall("LazyFetch", <<>>, "ok")
            /\ fetch' = [live |-> TRUE, model |-> m, query |-> query, params |-> params,
                         use_cache |-> use_cache, key |-> CacheKey(m, query, params),
                         connection |-> "None"]
    /\ UNCHANGED <<draftVars, connVars, logged, threadVars, connector, global_lookups>>

\* LazyFetch.get reading the database whatever the cache holds
LazyFetch_never_hit(use_cache, key, cache) == FALSE

\* the cache test of LazyFetch.get without the use_cache flag
CacheHit_without_flag(use_cache, key, cache) == key \in DOMAIN cache

\* the cache test at the head of LazyFetch.get
CacheHit(use_cache, key, cache) == use_cache /\ key \in DOMAIN cache

\* LazyFetch.get(), data the rows fetchall returns.  The code stores the list of
\* records under the key; the entry here also notes the record type and the statement
\* the list was read with (model, query, params), which properties refer to.
LazyFetch_get(F, data) ==
    /\ fetch.live
    /\ IF CacheHit(fetch.use_cache, fetch.key, global_lookups)
       THEN /\ call' = [NoCall EXCEPT !.op = "get", !.outcome = "ok", !.hit = TRUE,
                                      !.rows = global_lookups[fetch.key].data]
            /\ UNCHANGED <<global_lookups, leased>>
       ELSE
       LET acq    == Acquires(F)
           \* fetch_lookups
           cur    == acq /\ "cursor" \notin F
           exe    == cur /\ "execute" \notin F
           fet    == exe /\ "fetch" \notin F
           mapped == fet /\ ~MappingFails(fetch.model, data)
           events == <<"get_connection">>
                       \o (IF acq THEN <<"cursor">> ELSE <<>>)
                       \o (IF cur THEN <<"execute">> ELSE <<>>)
                       \o (IF exe THEN <<"fetch">> ELSE <<>>)
                       \o (IF cur THEN <<"cursor.close">> ELSE <<>>)
                       \o (IF acq THEN <<"close">> ELSE <<>>)
           outcome == IF mapped THEN "ok"
                      ELSE IF fet THEN fetch_lookups_mapping_error
                      ELSE "QueryError"
           rows   == IF mapped THEN MapRows(fetch.model, data) ELSE <<>>
       IN /\ call' = [TerminalCall("get", F, outcome, events,
                                   IF cur THEN fetch.query ELSE <<>>, <<>>)
                        EXCEPT !.data = IF fet THEN data ELSE <<>>, !.rows = rows]
          /\ global_lookups' =
                IF mapped /\ fetch.use_cache
                THEN CachePut(global_lookups, fetch.key,
                              [model |-> fetch.model.name, query |-> fetch.query,
                               params |-> fetch.params, data |-> rows])
                ELSE global_lookups
          /\ leased' = leased + (IF acq THEN 1 ELSE 0) - Count(events, "close")
    /\ UNCHANGED <<draftVars, connection, cursor, fetch, logged, threadVars, connector>>

\* the keys clear_cache(model_name) deletes
keys_to_remove(cache, model_name) ==
    {key \in DOMAIN cache : StartsWith(key, model_name \o <<"_">>)}

\* LazyFetch.clear_cache(model_name); model_name = <<>> is None or ''
LazyFetch_clear_cache(model_name) ==
    /\ global_lookups' = IF model_name # <<>>
                         THEN CacheWithout(global_lookups,
                                           keys_to_remove(global_lookups, model_name))
                         ELSE EmptyCache
    /\ call' = BuilderCall("clear_cache", <<model_name>>, "ok")
    /\ UNCHANGED <<draftVars, connVars, logged, threadVars, connector, fetch>>

---------------------------------------------------------------------------
(* Connector: the pool it creates on demand and keeps                      *)

\* Connector.__init__(host, user, database, port, is_azure_server, pool_size): texts
\* are <<>> when empty, the port is a Python object, the pool size an integer
Connector_init(host, user, database, port, is_azure_server, pool_size) ==
    /\ ~connector.live
    /\ IF \/ host = <<>> \/ user = <<>> \/ database = <<>>
          \/ ~IsInstanceInt(port) \/ port.v <= 0
          \/ pool_size <= 0
       THEN /\ call' = BuilderCall("Connector", <<host, user, database>>,
                                   "ConfigurationError")
            /\ UNCHANGED connector
       ELSE /\ call' = BuilderCall("Connector", <<host, user, database>>, "ok")
            /\ connector' = [NoConnector EXCEPT !.live = TRUE,
                                                !.is_azure_server = is_azure_server]
    /\ UNCHANGED <<draftVars, connVars, cacheVars, logged, threadVars>>

\* get_connection_pool making a pool whether or not one is stored
PoolStored_never(pool) == FALSE

\* get_connection_pool, line 133: self._connection_pool is not None
PoolStored(pool) == pool # 0

\* get_connection_pool() on the Connector as it stands; F names what fails: "azure"
\* the token request, "pool" the pool constructor (a driver Error).  The result tells
\* whether a pool was made, the pool returned (0 when the call raised
\* ConnectionError), the collaborators called and the Connector afterwards.
get_connection_pool(F) ==
    LET stored     == PoolStored(connector.pool)
        asksToken  == ~stored /\ connector.is_azure_server
        tokenFails == asksToken /\ "azure" \in F
        builds     == ~stored /\ ~tokenFails
        made       == builds /\ "pool" \notin F
        returned   == IF stored THEN connector.pool
                      ELSE IF made THEN connector.created + 1 ELSE 0
    IN [made     |-> made,
        returned |-> returned,
        events   |-> (IF asksToken THEN <<"azure_token">> ELSE <<>>)
                        \o (IF builds THEN <<"MySQLConnectionPool">> ELSE <<>>),
        after    |-> [connector EXCEPT
                         !.password = IF asksToken /\ ~tokenFails THEN "token" ELSE @,
                         !.pool = returned,
                         !.created = IF made THEN @ + 1 ELSE @]]

\* Connector.get_connection_pool()
Connector_get_connection_pool(F) ==
    /\ connector.live
    /\ LET got == get_connection_pool(F)
       IN /\ got.made => connector.created < MaxPools
          /\ call' = [TerminalCall("get_connection_pool", F,
                                   IF got.returned # 0 THEN "ok" ELSE "ConnectionError",
                                   got.events, <<>>, <<>>)
                        EXCEPT !.n = got.returned]
          /\ connector' = got.after
    /\ UNCHANGED <<draftVars, connVars, cacheVars, logged, threadVars>>

\* Connector.show_process_list(): the pool from get_connection_pool(), a connection
\* and a cursor from it, one statement, and a finally block whose close calls are not
\* guarded.  The ConnectionError of get_connection_pool passes through; a driver Error
\* becomes ConnectionError; what a close call raises leaves the call as it is.
Connector_show_process_list(F) ==
    /\ connector.live
    /\ leased < MaxLeaked
    /\ LET got  == get_connection_pool(F)
           pool == got.returned # 0
           acq  == pool /\ Acquires(F)
           cur  == acq /\ "cursor" \notin F
           exe  == cur /\ "execute" \notin F
           fet  == exe /\ "fetch" \notin F
           connClose == acq /\ ~(cur /\ "cursor.close" \in F)
           events == got.events
                       \o (IF pool THEN <<"get_connection">> ELSE <<>>)
                       \o (IF acq THEN <<"cursor">> ELSE <<>>)
                       \o (IF cur THEN <<"execute">> ELSE <<>>)
                       \o (IF exe THEN <<"fetch">> ELSE <<>>)
                       \o (IF cur THEN <<"cursor.close">> ELSE <<>>)
                       \o (IF connClose THEN <<"close">> ELSE <<>>)
           outcome == IF cur /\ "cursor.close" \in F THEN "Error"
                      ELSE IF connClose /\ "close" \in F THEN "Error"
                      ELSE IF ~fet THEN "ConnectionError"
                      ELSE "ok"
       IN /\ got.made => connector.created < MaxPools
          /\ call' = [TerminalCall("show_process_list", F, outcome, events,
                                   <<>>, <<>>)
                        EXCEPT !.n = got.returned]
          /\ connector' = got.after
          /\ leased' = leased + (IF acq /\ ~connClose THEN 1 ELSE 0)
    /\ UNCHANGED <<draftVars, connection, cursor, cacheVars, logged, threadVars>>

\* Connector.close_pool(): the stored pool is dropped
Connector_close_pool ==
    /\ connector.live
    /\ call' = BuilderCall("close_pool", <<>>, "ok")
    /\ connector' = [connector EXCEPT !.pool = 0]
    /\ UNCHANGED <<draftVars, connVars, cacheVars, logged, threadVars>>

\* Connector.__enter__(): returns self
Connector_enter ==
    /\ connector.live
    /\ call' = BuilderCall("Connector.__enter__", <<>>, "ok")
    /\ UNCHANGED <<draftVars, connVars, cacheVars, logged, threadVars, connector>>

\* Connector.__exit__(): close_pool()
Connector_exit ==
    /\ connector.live
    /\ call' = BuilderCall("Connector.__exit__", <<>>, "ok")
    /\ connector' = [connector EXCEPT !.pool = 0]
    /\ UNCHANGED <<draftVars, connVars, cacheVars, logged, threadVars>>

---------------------------------------------------------------------------
(* Concurrent calls.  A thread runs one call, a step per source line that   *)
(* reads or writes state other threads can reach: the cache, the fields of *)
(* a shared instance, a connection.  A call on an instance of its own is   *)
(* LazyFetch(ModelU, "q", pool).get() or LazyQuery(ModelU, pool).to_list().  *)

ThreadModel == [name |-> <<"U">>, arity |-> 2]
ThreadQuery == <<"q">>

\* the thread's record with some fields changed
Moved(t, pc) == [threads EXCEPT ![t].pc = pc]

\* a call returned or raised
Finished(th, outcome) ==
    [th EXCEPT !.pc = "done",
               !.outcome = IF th.outcome = "none" THEN outcome ELSE th.outcome]

\* the number of connections out of the pool
OpenCount(conns) == Cardinality({c \in DOMAIN conns : conns[c].state = "open"})

\* connection.close(): back to the pool; closing twice or closing None changes nothing
Closed(conns, c) ==
    IF c = "None" THEN conns ELSE [conns EXCEPT ![c].state = "closed"]

\* cursor.close()
CursorClosed(conns, k) ==
    IF k = "None" THEN conns ELSE [conns EXCEPT ![k].cursor = "closed"]

\* a caller starts a call on a thread: get() or to_list() on the shared instance or on
\* one of its own, or clear_cache(arg)
Thread_call(t, op, own, arg) ==
    /\ threads[t].pc = "idle"
    /\ (op = "get" /\ ~own) => fetch.live
    /\ (op = "to_list" /\ ~own) => kind = "query"
    /\ threads' = [threads EXCEPT ![t] =
                      [IdleThread EXCEPT !.pc = CASE op = "get" -> "get:114"
                                                 [] op = "clear_cache" -> "clear_cache:153"
                                                 [] OTHER -> "to_list:62",
                                         !.op = op, !.own = own, !.arg = arg]]
    /\ UNCHANGED <<draftVars, connVars, logged, cacheVars, connections, connector, call>>

\* self._key and self.use_cache of the instance the thread's get() runs on
ThreadKey(t) ==
    IF threads[t].own THEN CacheKey(ThreadModel, ThreadQuery, NoParams) ELSE fetch.key
ThreadUseCache(t) == IF threads[t].own THEN TRUE ELSE fetch.use_cache

\* self._connection of the LazyFetch instance the thread's get() runs on
FetchConnection(t) == IF threads[t].own THEN threads[t].conn ELSE fetch.connection

\* get, line 114: the cache test
LazyFetch_get_114(t) ==
    /\ threads[t].pc = "get:114"
    /\ threads' = Moved(t, IF CacheHit(ThreadUseCache(t), ThreadKey(t), global_lookups)
                          THEN "get:115" ELSE "get:122")
    /\ UNCHANGED <<draftVars, connVars, logged, cacheVars, connections, connector, call>>

\* get, line 115: the read of the cached list; a key no longer there raises KeyError
LazyFetch_get_115(t) ==
    /\ threads[t].pc = "get:115"
    /\ threads' = [threads EXCEPT ![t] =
                      IF ThreadKey(t) \in DOMAIN global_lookups
                      THEN [Finished(@, "ok") EXCEPT
                                !.rows = global_lookups[ThreadKey(t)].data, !.hit = TRUE]
                      ELSE Finished(@, "KeyError")]
    /\ UNCHANGED <<draftVars, connVars, logged, cacheVars, connections, connector, call>>

\* get, line 122: self._connection = self._connection_pool.get_connection()
LazyFetch_get_122(t) ==
    /\ threads[t].pc = "get:122"
    /\ connections' = [connections EXCEPT ![ConnName(t)].state = "open"]
    /\ leased' = leased + 1
    /\ IF threads[t].own
       THEN /\ threads' = [threads EXCEPT ![t].pc = "get:123", ![t].conn = ConnName(t)]
            /\ UNCHANGED fetch
       ELSE /\ threads' = Moved(t, "get:123")
            /\ fetch' = [fetch EXCEPT !.connection = ConnName(t)]
    /\ UNCHANGED <<draftVars, connection, cursor, logged, global_lookups, connector, call>>

\* get, line 123, into fetch_lookups up to cursor.execute: the statement starts on
\* the connection self._connection names now.  None has no cursor() (AttributeError);
\* a connection already closed makes the driver raise (QueryError)
LazyFetch_get_123(t) ==
    /\ threads[t].pc = "get:123"
    /\ LET c == FetchConnection(t) IN
       IF c = "None"
       THEN /\ threads' = [threads EXCEPT ![t].pc = "get:137",
                                          ![t].outcome = "AttributeError"]
            /\ UNCHANGED connections
       ELSE IF connections[c].state # "open"
       THEN /\ threads' = [threads EXCEPT ![t].pc = "get:137", ![t].outcome = "QueryError"]
            /\ UNCHANGED connections
       ELSE /\ threads' = [threads EXCEPT ![t].pc = "fetch_lookups:27", ![t].running = c]
            /\ connections' = [connections EXCEPT ![c].running = @ \cup {t}]
    /\ UNCHANGED <<draftVars, connVars, logged, cacheVars, connector, call>>

\* fetch_lookups, lines 27 to 29 and 39: fetchall, the mapping, cursor.close and the
\* return; data the rows the database holds at that moment
fetch_lookups_27(t, data) ==
    /\ threads[t].pc = "fetch_lookups:27"
    /\ LET c == threads[t].running IN
       /\ connections' = [connections EXCEPT ![c].running = @ \ {t}]
       /\ threads' =
             IF connections[c].state # "open" \/ MappingFails(ThreadModel, data)
             THEN [threads EXCEPT ![t].pc = "get:137", ![t].outcome = "QueryError",
                                  ![t].running = "None"]
             ELSE [threads EXCEPT ![t].pc = "get:126", ![t].running = "None",
                                  ![t].rows = MapRows(ThreadModel, data)]
    /\ UNCHANGED <<draftVars, connVars, logged, cacheVars, connector, call>>

\* get, lines 126 and 127: the store under the key
LazyFetch_get_126(t) ==
    /\ threads[t].pc = "get:126"
    /\ IF ThreadUseCache(t)
       THEN /\ global_lookups' =
                  CachePut(global_lookups, ThreadKey(t),
                           [model |-> ThreadModel.name, query |-> ThreadQuery,
                            params |-> NoParams, data |-> threads[t].rows])
            /\ threads' = [u \in Threads |->
                             IF u = t THEN [threads[t] EXCEPT !.pc = "get:137",
                                                              !.wrote = TRUE]
                             ELSE [threads[u] EXCEPT !.wrote = FALSE]]
       ELSE /\ threads' = Moved(t, "get:137")
            /\ UNCHANGED global_lookups
    /\ UNCHANGED <<draftVars, connVars, logged, fetch, connections, connector, call>>

\* get, lines 137 to 143: the finally block closes what self._connection names now
\* and resets the field
LazyFetch_get_137(t) ==
    /\ threads[t].pc = "get:137"
    /\ LET c == FetchConnection(t) IN
       /\ connections' = Closed(connections, c)
       /\ leased' = leased - OpenCount(connections) + OpenCount(Closed(connections, c))
       /\ IF threads[t].own
          THEN /\ threads' = [threads EXCEPT ![t] = [Finished(@, "ok") EXCEPT !.conn = "None"]]
               /\ UNCHANGED fetch
          ELSE /\ threads' = [threads EXCEPT ![t] = Finished(@, "ok")]
               /\ fetch' = [fetch EXCEPT !.connection = "None"]
    /\ UNCHANGED <<draftVars, connection, cursor, logged, global_lookups, connector, call>>

\* clear_cache, lines 153, 154 and 159: the keys to remove are listed, or the cache
\* is emptied
LazyFetch_clear_cache_153(t) ==
    /\ threads[t].pc = "clear_cache:153"
    /\ IF threads[t].arg # <<>>
       THEN /\ threads' = [threads EXCEPT
                              ![t].pc = "clear_cache:156",
                              ![t].keys = keys_to_remove(global_lookups, threads[t].arg)]
            /\ UNCHANGED global_lookups
       ELSE /\ threads' = [threads EXCEPT ![t] = Finished(@, "ok")]
            /\ global_lookups' = EmptyCache
    /\ UNCHANGED <<draftVars, connVars, logged, fetch, connections, connector, call>>

\* clear_cache, lines 155 and 156: del of the next listed key; a key no longer there
\* raises KeyError
LazyFetch_clear_cache_156(t) ==
    /\ threads[t].pc = "clear_cache:156"
    /\ IF threads[t].keys = {}
       THEN /\ threads' = [threads EXCEPT ![t] = Finished(@, "ok")]
            /\ UNCHANGED global_lookups
       ELSE \E k \in threads[t].keys :
              IF k \in DOMAIN global_lookups
              THEN /\ global_lookups' = CacheWithout(global_lookups, {k})
                   /\ threads' = [threads EXCEPT ![t].keys = @ \ {k}]
              ELSE /\ threads' = [threads EXCEPT ![t] = Finished(@, "KeyError")]
                   /\ UNCHANGED global_lookups
    /\ UNCHANGED <<draftVars, connVars, logged, fetch, connections, connector, call>>

\* self._connection and self._cursor of the LazyQuery the thread's to_list() runs on
QueryConnection(t) == IF threads[t].own THEN threads[t].conn ELSE connection
QueryCursor(t)     == IF threads[t].own THEN threads[t].cur ELSE cursor

\* _ensure_connection, line 62: if self._connection is None
LazyQuery_ensure_connection_62(t) ==
    /\ threads[t].pc = "to_list:62"
    /\ threads' = Moved(t, IF QueryConnection(t) = "None" THEN "to_list:64"
                          ELSE "to_list:176")
    /\ UNCHANGED <<draftVars, connVars, logged, cacheVars, connections, connector, call>>

\* _ensure_connection, line 64: self._connection = get_connection()
LazyQuery_ensure_connection_64(t) ==
    /\ threads[t].pc = "to_list:64"
    /\ connections' = [connections EXCEPT ![ConnName(t)].state = "open"]
    /\ leased' = leased + 1
    /\ IF threads[t].own
       THEN /\ threads' = [threads EXCEPT ![t].pc = "to_list:65", ![t].conn = ConnName(t)]
            /\ UNCHANGED connection
       ELSE /\ threads' = Moved(t, "to_list:65")
            /\ connection' = ConnName(t)
    /\ UNCHANGED <<draftVars, cursor, logged, cacheVars, connector, call>>

\* _ensure_connection, line 65: self._cursor = self._connection.cursor(), on the
\* connection the field names now.  None raises AttributeError, which leaves to_list
\* before its try block; a closed connection raises Error, re-raised as QueryError
LazyQuery_ensure_connection_65(t) ==
    /\ threads[t].pc = "to_list:65"
    /\ LET c == QueryConnection(t) IN
       IF c = "None"
       THEN /\ threads' = [threads EXCEPT ![t] = Finished(@, "AttributeError")]
            /\ UNCHANGED <<connections, cursor>>
       ELSE IF connections[c].state # "open"
       THEN /\ threads' = [threads EXCEPT ![t] = Finished(@, "QueryError")]
            /\ UNCHANGED <<connections, cursor>>
       ELSE /\ connections' = [connections EXCEPT ![c].cursor = "open"]
            /\ IF threads[t].own
               THEN /\ threads' = [threads EXCEPT ![t].pc = "to_list:176", ![t].cur = c]
                    /\ UNCHANGED cursor
               ELSE /\ threads' = Moved(t, "to_list:176")
                    /\ cursor' = c
    /\ UNCHANGED <<draftVars, connection, leased, logged, cacheVars, connector, call>>

\* a cursor the driver accepts calls on
CursorUsable(k) == connections[k].state = "open" /\ connections[k].cursor = "open"

\* to_list, lines 173 to 176: the statement is built, logged, and started on the
\* cursor self._cursor names now
LazyQuery_to_list_176(t) ==
    /\ threads[t].pc = "to_list:176"
    /\ LET k == QueryCursor(t) IN
       IF k = "None"
       THEN /\ threads' = [threads EXCEPT ![t].pc = "to_list:230",
                                          ![t].outcome = "AttributeError"]
            /\ UNCHANGED connections
       ELSE IF ~CursorUsable(k)
       THEN /\ threads' = [threads EXCEPT ![t].pc = "to_list:230",
                                          ![t].outcome = "QueryError"]
            /\ UNCHANGED connections
       ELSE /\ threads' = [threads EXCEPT ![t].pc = "to_list:177", ![t].running = k]
            /\ connections' = [connections EXCEPT ![k].running = @ \cup {t}]
    /\ logged' = Logged(IF threads[t].own THEN <<>> ELSE where_conditions)
    /\ UNCHANGED <<draftVars, connVars, cacheVars, connector, call>>

\* to_list, lines 177 to 190: fetchall on the cursor self._cursor names now, and the
\* mapping; the statement is over
LazyQuery_to_list_177(t, data) ==
    /\ threads[t].pc = "to_list:177"
    /\ LET k == QueryCursor(t) IN
       /\ connections' = [connections EXCEPT ![threads[t].running].running = @ \ {t}]
       /\ threads' =
             [threads EXCEPT
                ![t] = [@ EXCEPT !.pc = "to_list:230", !.running = "None",
                                 !.outcome = IF k = "None" THEN "AttributeError"
                                             ELSE IF ~CursorUsable(k) THEN "QueryError"
                                             ELSE IF MappingFails(ThreadModel, data)
                                             THEN LazyQuery_mapping_error
                                             ELSE "none",
                                 !.rows = IF k # "None" /\ CursorUsable(k)
                                             /\ ~MappingFails(ThreadModel, data)
                                          THEN MapRows(ThreadModel, data) ELSE <<>>]]
    /\ UNCHANGED <<draftVars, connVars, logged, cacheVars, connector, call>>

\* _cleanup, lines 230 to 245: what self._cursor and self._connection name now is
\* closed and the fields are reset
LazyQuery_cleanup_230(t) ==
    /\ threads[t].pc = "to_list:230"
    /\ LET k == QueryCursor(t)
           c == QueryConnection(t)
           after == Closed(CursorClosed(connections, k), c)
       IN /\ connections' = after
          /\ leased' = leased - OpenCount(connections) + OpenCount(after)
          /\ IF threads[t].own
             THEN /\ threads' = [threads EXCEPT
                                   ![t] = [Finished(@, "ok") EXCEPT !.conn = "None",
                                                                    !.cur = "None"]]
                  /\ UNCHANGED <<connection, cursor>>
             ELSE /\ threads' = [threads EXCEPT ![t] = Finished(@, "ok")]
                  /\ connection' = "None"
                  /\ cursor' = "None"
    /\ UNCHANGED <<draftVars, logged, cacheVars, connector, call>>

---------------------------------------------------------------------------
(* Inputs *)

IdA     == <<"a">>
IdB     == <<"b">>
IdA_B   == <<"a", "_", "b">>
IdADotB == <<"a", ".", "b">>
IdInj   == <<"a", ";">>          \* "a;"
IdUni   == <<"U+00E9">>          \* e-acute: alphanumeric for str.isalnum
IdUnder == <<"_">>

ModelU  == [name |-> <<"U">>, arity |-> 2]
ModelUP == [name |-> <<"U", "_", "P">>, arity |-> 2]
ModelP  == [name |-> <<"P">>, arity |-> 2]

QueryQ  == <<"q">>
QueryPQ == <<"P", "_", "q">>

\* params=(1,)
Params1 == [t |-> "tuple", items |-> <<1>>]

\* rows the driver can return: every list of at most MaxRows rows of these shapes
RowShapes  == {<<1, 1>>, <<1>>}
DriverRows == UNION {[1..n -> RowShapes] : n \in 0..MaxRows}

\* what fetchone can return for COUNT(*): None or one row
CountRows == {<<>>} \cup {<<n>> : n \in 0..MaxRows}

\* the sets of driver calls that fail during one mutating terminal call: none, one
\* call, or a call of the try block together with the rollback that follows it
MutateFaults ==
    {{}} \cup {{o} : o \in {"get_connection", "pool_exhausted", "cursor", "execute",
                            "commit", "cursor.close", "close"}}
         \cup {{o, "rollback"} : o \in {"cursor", "execute", "commit"}}

\* the failures during one insert: those, or extract_row raising
InsertFaults == MutateFaults \cup {{"extract"}}

\* the sets of driver calls that fail during one reading terminal call
ReadFaults ==
    {{}} \cup {{o} : o \in {"get_connection", "pool_exhausted", "cursor", "execute",
                            "fetch", "cursor.close", "close"}}

\* a failing read and the rows of the driver: <<F, data>>, with no rows when a call
\* before fetchall's return raises
ReadInputs ==
    {i \in ReadFaults \X DriverRows :
        i[1] \cap {"get_connection", "pool_exhausted", "cursor", "execute", "fetch"} # {}
            => i[2] = <<>>}

\* a failing mutation and the driver's affected-row count: <<F, rowcount>>, with count
\* 0 when a call up to commit raises
MutateInputs ==
    {i \in MutateFaults \X (0..MaxRows) :
        i[1] \cap {"get_connection", "pool_exhausted", "cursor", "execute", "commit"} # {}
            => i[2] = 0}

\* where() arguments <<column, value, operator>>
ExecWheres == {<<IdA, Scalar(1), OpEQ>>, <<IdB, List(<<1, 2>>), OpIN>>}

\* set() arguments
ExecSets == {<< [col |-> IdA, val |-> Scalar(1)] >>, << [col |-> IdB, val |-> Scalar(2)] >>}

\* LazyInsert(data, query, chunk_size) arguments: records are numbered, <<>> is no data
\* or no query
InsertData    == {<<>>} \cup {[i \in 1..n |-> i] : n \in 1..(MaxRows + 2)}
InsertQueries == {<<>>, QueryQ}
ChunkSizes    == {0, 1, 2}

\* order_by() arguments <<column, direction>>
ExecOrders == {<<IdA, <<"d", "e", "s", "c">> >>}

\* limit() arguments <<limit, offset>>
ExecLimits == {<<IntObj(1), IntObj(0)>>, <<IntObj(1), IntObj(1)>>, <<IntObj(-1), IntObj(0)>>}

---------------------------------------------------------------------------
(* Spec: one builder, built until its first statement is logged, executing *)
(* against a pool and driver that may fail at any call                     *)

Next ==
    \/ \E pool \in BOOLEAN : LazyQuery_init(ModelU, pool, <<>>)
    \/ \E pool \in BOOLEAN : LazyUpdate_init(IdA, pool)
    \/ \E pool \in BOOLEAN : LazyDelete_init(IdA, pool)
    \/ /\ ~logged.any
       /\ \/ LazyQuery_select_all
          \/ \E w \in ExecWheres : LazyQuery_where(w[1], w[2], w[3])
          \/ \E w \in ExecWheres : LazyUpdate_where(w[1], w[2], w[3])
          \/ \E w \in ExecWheres : LazyDelete_where(w[1], w[2], w[3])
          \/ \E v \in ExecSets : LazyUpdate_set(v)
          \/ \E o \in ExecOrders : LazyQuery_order_by(o[1], o[2])
          \/ \E l \in ExecLimits : LazyQuery_limit(l[1], l[2])
          \/ \E l \in ExecLimits : LazyDelete_limit(l[1])
    \/ \E i \in MutateInputs : LazyUpdate_execute(i[1], i[2])
    \/ \E c \in BOOLEAN, i \in MutateInputs : LazyDelete_execute(c, i[1], i[2])
    \/ \E i \in ReadInputs : LazyQuery_to_list(i[1], i[2])
    \/ \E i \in ReadInputs : LazyQuery_first(i[1], i[2])
    \/ \E F \in ReadFaults, r \in CountRows : LazyQuery_count(F, r)
    \/ \E pool \in BOOLEAN, d \in {<<>>, <<1>>}, q \in InsertQueries :
           LazyInsert_init(IdA, pool, 1, d, q)
    \/ \E F \in InsertFaults : LazyInsert_insert(F, 1)

Spec == Init /\ [][Next]_vars

---------------------------------------------------------------------------
(* SpecThreads: two threads, each making one call, on the shared cache, on *)
(* a shared LazyFetch or LazyQuery, or on instances of their own; the      *)
(* cache may have been filled by a get() that ran before them              *)

\* the rows the database holds when a thread reads
ThreadRows == {<<>>, << <<1, 1>> >>}

\* the calls a thread makes: <<op, own, arg>>
ThreadCalls ==
    {<<"get", own, <<>> >> : own \in BOOLEAN}
        \cup {<<"to_list", own, <<>> >> : own \in BOOLEAN}
        \cup {<<"clear_cache", TRUE, name>> : name \in {<<>>, ThreadModel.name}}

NextThreads ==
    \/ /\ \A t \in Threads : threads[t].pc = "idle"
       /\ \/ /\ ~fetch.live
             /\ LazyFetch_init(ThreadModel, ThreadQuery, TRUE, NoParams, TRUE)
          \/ LazyQuery_init(ThreadModel, TRUE, <<>>)
          \/ \E data \in ThreadRows : LazyFetch_get({}, data)
    \/ \E t \in Threads, c \in ThreadCalls : Thread_call(t, c[1], c[2], c[3])
    \/ \E t \in Threads : LazyFetch_get_114(t)
    \/ \E t \in Threads : LazyFetch_get_115(t)
    \/ \E t \in Threads : LazyFetch_get_122(t)
    \/ \E t \in Threads : LazyFetch_get_123(t)
    \/ \E t \in Threads, data \in ThreadRows : fetch_lookups_27(t, data)
    \/ \E t \in Threads : LazyFetch_get_126(t)
    \/ \E t \in Threads : LazyFetch_get_137(t)
    \/ \E t \in Threads : LazyFetch_clear_cache_153(t)
    \/ \E t \in Threads : LazyFetch_clear_cache_156(t)
    \/ \E t \in Threads : LazyQuery_ensure_connection_62(t)
    \/ \E t \in Threads : LazyQuery_ensure_connection_64(t)
    \/ \E t \in Threads : LazyQuery_ensure_connection_65(t)
    \/ \E t \in Threads : LazyQuery_to_list_176(t)
    \/ \E t \in Threads, data \in ThreadRows : LazyQuery_to_list_177(t, data)
    \/ \E t \in Threads : LazyQuery_cleanup_230(t)

SpecThreads == Init /\ [][NextThreads]_vars

---------------------------------------------------------------------------
(* SpecRead: a query builder reading rows that differ from one another      *)

\* the rows fetchall returns: none, one, or two different ones in either order
ReadRows ==
    {<<>>, << <<1, 1>> >>, << <<1, 1>>, <<2, 1>> >>, << <<2, 1>>, <<1, 1>> >>,
     << <<1, 1>>, <<1>> >>}

\* limit() arguments <<limit, offset>>, limit(0) among them
ReadLimits == ExecLimits \cup {<<IntObj(0), IntObj(0)>>}

NextRead ==
    \/ LazyQuery_init(ModelU, TRUE, <<>>)
    \/ \E w \in ExecWheres : LazyQuery_where(w[1], w[2], w[3])
    \/ \E l \in ReadLimits : LazyQuery_limit(l[1], l[2])
    \/ \E F \in {{}, {"execute"}, {"fetch"}}, data \in ReadRows : LazyQuery_to_list(F, data)
    \/ \E F \in {{}, {"execute"}, {"fetch"}}, data \in ReadRows : LazyQuery_first(F, data)
    \/ \E r \in CountRows : LazyQuery_count({}, r)

SpecRead == Init /\ [][NextRead]_vars

---------------------------------------------------------------------------
(* SpecInsert: LazyInsert instances of every data length and chunk size,   *)
(* inserting through a pool and driver that may fail at any call, in any   *)
(* chunk                                                                   *)

NextInsert ==
    \/ \E pool \in BOOLEAN, c \in ChunkSizes, d \in InsertData, q \in InsertQueries :
           LazyInsert_init(IdA, pool, c, d, q)
    \/ \E F \in InsertFaults, at \in 1..(MaxRows + 2) : LazyInsert_insert(F, at)

SpecInsert == Init /\ [][NextInsert]_vars

---------------------------------------------------------------------------
(* SpecCache: LazyFetch instances reading through the process-wide cache,  *)
(* with builders executing in between                                      *)

\* LazyFetch(model, query, params) arguments
FetchInputs ==
    {<<ModelU, QueryQ, NoParams>>, <<ModelUP, QueryQ, NoParams>>,
     <<ModelP, QueryQ, NoParams>>, <<ModelU, <<>>, NoParams>>}

\* clear_cache arguments: a record type name, or <<>> for None
ClearInputs == {<<>>, ModelU.name, ModelUP.name, ModelP.name}

\* the failures of a read that SpecCache injects
CacheFaults == {{}, {"get_connection"}, {"pool_exhausted"}, {"execute"}}

NextCache ==
    \/ \E i \in FetchInputs, pool \in BOOLEAN, u \in BOOLEAN :
           LazyFetch_init(i[1], i[2], pool, i[3], u)
    \/ \E F \in CacheFaults, data \in DriverRows : LazyFetch_get(F, data)
    \/ \E name \in ClearInputs : LazyFetch_clear_cache(name)
    \/ LazyQuery_init(ModelU, TRUE, <<>>)
    \/ LazyUpdate_init(IdA, TRUE)
    \/ LazyDelete_init(IdA, TRUE)
    \/ \E v \in ExecSets : LazyUpdate_set(v)
    \/ LazyUpdate_execute({}, 1)
    \/ LazyDelete_execute(TRUE, {}, 1)
    \/ \E data \in DriverRows : LazyQuery_to_list({}, data)
    \/ LazyInsert_init(IdA, TRUE, 1, <<1>>, QueryQ)
    \/ LazyInsert_insert({}, 1)

SpecCache == Init /\ [][NextCache]_vars

---------------------------------------------------------------------------
(* SpecKeys: LazyFetch instances whose record type names, query texts and   *)
(* parameters differ, reading through the cache                            *)

\* LazyFetch(model, query, params) arguments
KeyInputs ==
    {<<ModelU, QueryQ, NoParams>>, <<ModelU, QueryQ, Params1>>,
     <<ModelUP, QueryQ, NoParams>>, <<ModelU, QueryPQ, NoParams>>}

NextKeys ==
    \/ \E i \in KeyInputs, u \in BOOLEAN : LazyFetch_init(i[1], i[2], TRUE, i[3], u)
    \/ \E data \in DriverRows : LazyFetch_get({}, data)
    \/ LazyFetch_clear_cache(<<>>)

SpecKeys == Init /\ [][NextKeys]_vars

---------------------------------------------------------------------------
(* SpecBuild: the builders fed identifiers and operators of every shape    *)
(* until their first statement is logged, and compiled by terminal calls   *)
(* on a driver that does not fail                                          *)

BuildIdents == {IdA, IdA_B, IdADotB, IdInj, IdUni, IdUnder}

BuildOperators ==
    allowed_operators
        \cup {<<"l", "i", "k", "e">>, <<"i", "n">>, <<"I", "n">>,
              <<"n", "o", "t", " ", "i", "n">>, <<"U+0131", "N">>,
              <<"=", "=">>, <<"O", "R">>, <<"N", "O", "T">>, <<"I", "N", " ">>, <<>>}

\* where() arguments: every identifier with '=', and every operator on column a with
\* a scalar and with a list
BuildWheres ==
    {<<c, Scalar(1), OpEQ>> : c \in BuildIdents \cup {<<>>}}
        \cup {<<IdA, v, o>> : v \in {Scalar(1), List(<<1, 2>>)}, o \in BuildOperators}

BuildSelects == {<<>>, <<IdA>>, <<IdA, IdInj>>}

BuildSets ==
    {<<>>, << [col |-> IdA, val |-> Scalar(1)] >>, << [col |-> IdInj, val |-> Scalar(1)] >>,
     << [col |-> IdADotB, val |-> Scalar(1)] >>,
     << [col |-> IdA, val |-> Scalar(2)], [col |-> IdUni, val |-> Scalar(1)] >>}

\* order_by() arguments: identifiers ascending, and column a with directions in
\* lower case, upper case and outside the two allowed
BuildOrders ==
    {<<c, <<"a", "s", "c">> >> : c \in {IdA, IdInj, IdUni, <<>>}}
        \cup {<<IdA, d>> : d \in {DirDESC, <<"d", "e", "s", "c">>, <<"a">>, <<>>}}

NextBuild ==
    \/ \E pool \in BOOLEAN, tn \in BuildIdents \cup {<<>>} : LazyQuery_init(ModelU, pool, tn)
    \/ \E pool \in BOOLEAN, tn \in BuildIdents \cup {<<>>} : LazyUpdate_init(tn, pool)
    \/ \E pool \in BOOLEAN, tn \in BuildIdents \cup {<<>>} : LazyDelete_init(tn, pool)
    \/ /\ ~logged.any
       /\ \/ LazyQuery_select_all
          \/ \E cols \in BuildSelects : LazyQuery_select(cols)
          \/ \E v \in BuildSets : LazyUpdate_set(v)
    \/ /\ ~logged.any
       /\ Len(where_conditions) + Len(order_by) < MaxBuildClauses
       /\ \/ \E w \in BuildWheres : LazyQuery_where(w[1], w[2], w[3])
          \/ \E w \in BuildWheres : LazyUpdate_where(w[1], w[2], w[3])
          \/ \E w \in BuildWheres : LazyDelete_where(w[1], w[2], w[3])
          \/ \E o \in BuildOrders : LazyQuery_order_by(o[1], o[2])
    \/ LazyQuery_to_list({}, <<>>)
    \/ LazyQuery_count({}, <<0>>)
    \/ LazyUpdate_execute({}, 0)
    \/ \E c \in BOOLEAN : LazyDelete_execute(c, {}, 0)

SpecBuild == Init /\ [][NextBuild]_vars

---------------------------------------------------------------------------
(* SpecCompile: drafts built by short call sequences in any order, then     *)
(* compiled and executed on a driver that does not fail                    *)

\* where() arguments: a scalar with '=', lists with IN and NOT IN, a scalar with IN
CompileWheres ==
    {<<IdA, Scalar(1), OpEQ>>, <<IdB, List(<<1, 2>>), OpIN>>,
     <<IdA, List(<<2>>), <<"n", "o", "t", " ", "i", "n">> >>,
     <<IdB, Scalar(2), OpIN>>, <<IdB, Scalar(2), <<"n", "o", "t", " ", "i", "n">> >>}

\* set() arguments
CompileSets ==
    {<< [col |-> IdA, val |-> Scalar(2)] >>,
     << [col |-> IdB, val |-> Scalar(2)], [col |-> IdA, val |-> Scalar(0)] >>}

\* order_by() arguments
CompileOrders == {<<IdA, <<"a", "s", "c">> >>, <<IdB, DirDESC>>, <<IdA, <<"a">> >>}

\* limit() arguments <<limit, offset>>
CompileLimits ==
    {<<IntObj(0), IntObj(0)>>, <<IntObj(1), IntObj(1)>>, <<IntObj(-1), IntObj(0)>>,
     <<IntObj(1), IntObj(-1)>>, <<BoolObj(TRUE), IntObj(0)>>, <<FloatObj(1), IntObj(0)>>}

NextCompile ==
    \/ LazyQuery_init(ModelU, TRUE, <<>>)
    \/ LazyUpdate_init(IdA, TRUE)
    \/ LazyDelete_init(IdA, TRUE)
    \/ LazyQuery_select_all
    \/ \E cols \in {<<IdA>>, <<IdB, IdA>>} : LazyQuery_select(cols)
    \/ \E w \in CompileWheres : LazyQuery_where(w[1], w[2], w[3])
    \/ \E w \in CompileWheres : LazyUpdate_where(w[1], w[2], w[3])
    \/ \E w \in CompileWheres : LazyDelete_where(w[1], w[2], w[3])
    \/ \E o \in CompileOrders : LazyQuery_order_by(o[1], o[2])
    \/ \E l \in CompileLimits : LazyQuery_limit(l[1], l[2])
    \/ \E l \in CompileLimits : LazyDelete_limit(l[1])
    \/ \E v \in CompileSets : LazyUpdate_set(v)
    \/ LazyQuery_compile
    \/ LazyUpdate_compile
    \/ LazyDelete_compile
    \/ LazyQuery_to_list({}, <<>>)
    \/ \E r \in CountRows : LazyQuery_count({}, r)
    \/ \E n \in 0..MaxRows : LazyUpdate_execute({}, n)
    \/ LazyDelete_execute(TRUE, {}, 0)

SpecCompile == Init /\ [][NextCompile]_vars

---------------------------------------------------------------------------
(* SpecContext: one query builder used as a context manager and outside of *)
(* one, entered, executed and left in any order, on a pool and driver that *)
(* may fail                                                                *)

\* the failures during __enter__ and __exit__
ContextFaults == {{}, {"get_connection"}, {"cursor"}, {"cursor.close"}, {"close"}}

NextContext ==
    \/ LazyQuery_init(ModelU, TRUE, <<>>)
    \/ \E w \in ExecWheres : LazyQuery_where(w[1], w[2], w[3])
    \/ \E F \in ContextFaults : LazyQuery_enter(F)
    \/ \E i \in ReadInputs : LazyQuery_to_list(i[1], i[2])
    \/ \E F \in ContextFaults : LazyQuery_first(F, <<>>)
    \/ \E F \in ContextFaults : LazyQuery_count(F, <<0>>)
    \/ \E F \in ContextFaults : LazyQuery_exit(F)

SpecContext == Init /\ [][NextContext]_vars

---------------------------------------------------------------------------
(* SpecCleanup: a builder and a LazyFetch executing again and again on a    *)
(* driver whose close calls may fail, alone or after a failed statement    *)

\* the close calls of cleanup
CloseFaults == {"cursor.close", "close"}

\* the failures during one read: none, execute or fetchall, each with any close failing
CleanupReadFaults ==
    {B \cup C : B \in {{}, {"execute"}, {"fetch"}}, C \in SUBSET CloseFaults}

\* the failures during one mutation: none, execute or commit, each with any close failing
CleanupMutateFaults ==
    {B \cup C : B \in {{}, {"execute"}, {"commit"}}, C \in SUBSET CloseFaults}

\* the rows fetchall returns: none, one that maps, one that does not
CleanupRows == {<<>>, << <<1, 1>> >>, << <<1>> >>}

NextCleanup ==
    \/ LazyQuery_init(ModelU, TRUE, <<>>)
    \/ LazyUpdate_init(IdA, TRUE)
    \/ LazyDelete_init(IdA, TRUE)
    \/ \E c \in BOOLEAN : LazyFetch_init(ModelU, QueryQ, TRUE, NoParams, c)
    \/ LazyQuery_where(IdA, Scalar(1), OpEQ)
    \/ LazyUpdate_where(IdA, Scalar(1), OpEQ)
    \/ LazyDelete_where(IdA, Scalar(1), OpEQ)
    \/ LazyUpdate_set(<< [col |-> IdA, val |-> Scalar(2)] >>)
    \/ \E F \in CleanupReadFaults, data \in CleanupRows :
           (F \cap {"execute", "fetch"} # {} => data = <<>>) /\ LazyQuery_to_list(F, data)
    \/ \E F \in CleanupReadFaults : LazyQuery_first(F, <<>>)
    \/ \E F \in CleanupReadFaults : LazyQuery_count(F, <<0>>)
    \/ \E F \in CleanupMutateFaults : LazyUpdate_execute(F, 0)
    \/ \E F \in CleanupMutateFaults, c \in BOOLEAN : LazyDelete_execute(c, F, 0)
    \/ \E F \in CleanupReadFaults, data \in CleanupRows :
           (F \cap {"execute", "fetch"} # {} => data = <<>>) /\ LazyFetch_get(F, data)

SpecCleanup == Init /\ [][NextCleanup]_vars

---------------------------------------------------------------------------
(* SpecConnector: one Connector, asked for its pool, closed, entered and   *)
(* left in any order, with the token request and the pool constructor     *)
(* failing at will                                                         *)

\* Connector() arguments <<host, user, database, port, is_azure_server, pool_size>>
ConnectorInputs ==
    {<<h, <<"u">>, <<"d">>, p, z, s>> :
        h \in {<<>>, <<"h">>}, p \in {IntObj(1), IntObj(0), FloatObj(1)},
        z \in BOOLEAN, s \in {0, 1}}
      \cup {<< <<"h">>, <<>>, <<"d">>, IntObj(1), FALSE, 1>>,
            << <<"h">>, <<"u">>, <<>>, IntObj(1), FALSE, 1>>}

\* the failures during one show_process_list: none, or one call failing
ProcessListFaults ==
    {{}} \cup {{o} : o \in {"azure", "pool", "get_connection", "cursor", "execute",
                            "fetch", "cursor.close", "close"}}

NextConnector ==
    \/ \E i \in ConnectorInputs : Connector_init(i[1], i[2], i[3], i[4], i[5], i[6])
    \/ \E F \in SUBSET {"azure", "pool"} : Connector_get_connection_pool(F)
    \/ \E F \in ProcessListFaults : Connector_show_process_list(F)
    \/ Connector_close_pool
    \/ Connector_enter
    \/ Connector_exit

SpecConnector == Init /\ [][NextConnector]_vars

---------------------------------------------------------------------------
(* SpecValidate: builders given good and bad arguments in any order, never  *)
(* executed                                                                 *)

\* where() arguments: two good ones, then a bad operator, a bad column and a scalar
\* with IN
ValidateWheres ==
    {<<IdA, Scalar(1), OpEQ>>, <<IdB, List(<<1, 2>>), OpIN>>,
     <<IdA, Scalar(1), <<"=", "=">> >>, <<IdInj, Scalar(1), OpEQ>>,
     <<IdB, Scalar(2), OpIN>>}

\* order_by() arguments: a good one, a bad direction, a bad column
ValidateOrders == {<<IdB, DirDESC>>, <<IdA, <<"a">> >>, <<IdInj, DirDESC>>}

\* limit() arguments <<limit, offset>>: good, negative, not an integer, bad offset
ValidateLimits ==
    {<<IntObj(1), IntObj(1)>>, <<IntObj(-1), IntObj(0)>>, <<FloatObj(1), IntObj(0)>>,
     <<IntObj(2), IntObj(-1)>>}

\* set() arguments: good, empty, one bad column, a bad column after a good one
ValidateSets ==
    {<< [col |-> IdA, val |-> Scalar(2)] >>, <<>>,
     << [col |-> IdInj, val |-> Scalar(1)] >>,
     << [col |-> IdB, val |-> Scalar(2)], [col |-> IdInj, val |-> Scalar(1)] >>}

NextValidate ==
    \/ LazyQuery_init(ModelU, TRUE, <<>>)
    \/ LazyUpdate_init(IdA, TRUE)
    \/ LazyDelete_init(IdA, TRUE)
    \/ \E cols \in {<<>>, <<IdA>>} : LazyQuery_select(cols)
    \/ \E w \in ValidateWheres : LazyQuery_where(w[1], w[2], w[3])
    \/ \E w \in ValidateWheres : LazyUpdate_where(w[1], w[2], w[3])
    \/ \E w \in ValidateWheres : LazyDelete_where(w[1], w[2], w[3])
    \/ \E o \in ValidateOrders : LazyQuery_order_by(o[1], o[2])
    \/ \E l \in ValidateLimits : LazyQuery_limit(l[1], l[2])
    \/ \E l \in ValidateLimits : LazyDelete_limit(l[1])
    \/ \E v \in ValidateSets : LazyUpdate_set(v)

SpecValidate == Init /\ [][NextValidate]_vars

---------------------------------------------------------------------------
(* Properties *)

\* the events of a call, as a set
Events == {call.events[i] : i \in DOMAIN call.events}

\* C1: LazyDelete.execute on a builder with no predicates fails with ValidationError,
\* taking no connection and dispatching nothing, unless confirm_delete_all is True;
\* with it the call goes to the pool first and the DELETE it dispatches has no WHERE.
C1_DeleteAllNeedsConfirmation ==
    (call.op = "delete.execute" /\ where_conditions = <<>>) =>
        IF ~call.confirm
        THEN /\ call.outcome = "ValidationError"
             /\ call.events = <<>>
             /\ call.sql = <<>>
             /\ connection = "None" /\ leased = 0
        ELSE /\ call.events # <<>> /\ call.events[1] = "get_connection"
             /\ call.faults = {} => ("execute" \in Events /\ call.outcome = "ok")
             /\ "execute" \in Events =>
                    /\ call.sql[1] = "DELETE FROM "
                    /\ \A i \in DOMAIN call.sql : call.sql[i] # " WHERE "

\* C1: an unconfirmed delete-all was refused
C1_Witness ==
    /\ call.op = "delete.execute" /\ where_conditions = <<>>
    /\ ~call.confirm /\ call.outcome = "ValidationError"
    /\ kind = "delete"

\* C2: LazyUpdate.execute on a builder with SET values and no predicates fails with
\* ValidationError before the database is touched (execute takes no confirm-all flag,
\* so none was given).
C2_UpdateAllNeedsConfirmation ==
    (call.op = "update.execute" /\ where_conditions = <<>> /\ set_values # <<>>) =>
        /\ call.outcome = "ValidationError"
        /\ call.events = <<>>

\* the characters [A-Za-z0-9_.] of the model's alphabet, and the others identifiers use
SafeIdentChars   == AsciiAlnum \cup {"_", "."}
UnsafeIdentChars == {";", "U+00E9", "U+00C9"}
HasUnsafeChar(name) == \E i \in DOMAIN name : name[i] \notin SafeIdentChars

\* C3: a table or column identifier with a character outside [A-Za-z0-9_.] makes the
\* constructor or builder call fail with ValidationError, and no compiled SQL text
\* holds such a character.
C3_UnsafeIdentifiersRejected ==
    /\ (/\ call.op \in {"LazyQuery", "LazyUpdate", "LazyDelete", "select", "where",
                       "order_by", "set"}
        /\ \E i \in DOMAIN call.idents : HasUnsafeChar(call.idents[i]))
          => call.outcome = "ValidationError"
    /\ \A i \in DOMAIN call.sql : call.sql[i] \notin UnsafeIdentChars

\* C4: where() fails with ValidationError when the upper-cased operator is not in the
\* allow-list; an operator in it is accepted in any letter case, and IN / NOT IN stand
\* upper-cased in the fragment.
C4_OperatorAllowList ==
    call.op = "where" =>
        LET column == call.idents[1]
            up     == Upper(call.operator)
            frag   == where_conditions[Len(where_conditions)]
        IN /\ up \notin allowed_operators => call.outcome = "ValidationError"
           /\ (/\ up \in allowed_operators
               /\ ColumnValid(column)
               /\ (up \in {OpIN, OpNOTIN} => call.arg.t = "list"))
                 => call.outcome = "ok"
           /\ (call.outcome = "ok" /\ up \in {OpIN, OpNOTIN}) =>
                 SubSeq(frag, Len(column) + 2, Len(column) + 1 + Len(up)) = up

\* C4: a lower-case "in" was accepted
C4_Witness ==
    /\ call.op = "where" /\ call.operator = <<"i", "n">> /\ call.outcome = "ok"
    /\ where_conditions # <<>>

\* C5: when a read terminal call has returned or raised, the builder holds no
\* connection or cursor and every connection taken from the pool has been closed.
C5_ReadReleasesConnection ==
    call.op \in {"to_list", "first", "count", "get"} =>
        /\ connection = "None"
        /\ cursor = "None"
        /\ leased = 0

\* the driver raised in execute or commit of the mutating statement
DriverRaisedMidStatement ==
    /\ call.op \in {"update.execute", "delete.execute"}
    /\ \/ "execute" \in call.faults /\ "execute" \in Events
       \/ "commit" \in call.faults /\ "commit" \in Events

\* C6: when the driver raises in execute or commit of an UPDATE or DELETE, rollback is
\* attempted once, the connection is then closed once, the statement is dispatched
\* once, and the call fails with QueryError.
C6_FailedMutationRollsBackOnce ==
    DriverRaisedMidStatement =>
        /\ Count(call.events, "rollback") = 1
        /\ Count(call.events, "close") = 1
        /\ Count(call.events, "execute") = 1
        /\ \A i, j \in DOMAIN call.events :
               (call.events[i] = "rollback" /\ call.events[j] = "close") => i < j
        /\ call.outcome = "QueryError"

\* C7: when the rollback after a failed UPDATE or DELETE fails too, the caller still
\* gets the QueryError of the original failure and the connection is released.
C7_RollbackFailureKeepsQueryError ==
    (DriverRaisedMidStatement /\ "rollback" \in call.faults /\ "rollback" \in Events) =>
        /\ call.outcome = "QueryError"
        /\ Count(call.events, "close") = 1
        /\ connection = "None" /\ leased = 0

\* C8: a fetched row whose column count differs from the record type's field count
\* makes to_list and get fail with DataMappingError.
C8_ArityMismatchIsDataMappingError ==
    (/\ call.op \in {"to_list", "get"}
     /\ MappingFails(IF call.op = "get" THEN fetch.model ELSE model, call.data))
        => call.outcome = "DataMappingError"

\* C9: once the cache holds an entry for a LazyFetch's key, a get with use_cache
\* returns the stored list, takes no connection and makes no driver call; and an
\* entry stays as stored, whatever builders execute, until clear_cache is called.
C9_CachedReadStaysCached ==
    [][ /\ (/\ call'.op = "get"
            /\ fetch.use_cache
            /\ fetch.key \in DOMAIN global_lookups
            /\ global_lookups[fetch.key].model = fetch.model.name)
              => /\ call'.outcome = "ok"
                 /\ call'.rows = global_lookups[fetch.key].data
                 /\ call'.events = <<>>
                 /\ leased' = leased
        /\ \A k \in DOMAIN global_lookups :
              \/ k \in DOMAIN global_lookups' /\ global_lookups'[k] = global_lookups[k]
              \/ call'.op = "clear_cache"
      ]_vars

\* C9: a get was answered from the cache with a non-empty stored list
C9_Witness ==
    /\ call.op = "get" /\ call.hit /\ call.rows # <<>>
    /\ fetch.key \in DOMAIN global_lookups
    /\ call.rows = global_lookups[fetch.key].data

\* C10: clear_cache(T) removes exactly the entries whose record type is named T and
\* leaves every other type's entries as they were; clear_cache() empties the cache.
C10_ClearCacheByExactType ==
    [][ call'.op = "clear_cache" =>
          LET T == call'.idents[1] IN
          IF T = <<>>
          THEN DOMAIN global_lookups' = {}
          ELSE /\ DOMAIN global_lookups' =
                      {k \in DOMAIN global_lookups : global_lookups[k].model # T}
               /\ \A k \in DOMAIN global_lookups' : global_lookups'[k] = global_lookups[k]
      ]_vars

\* C11: a get answered from the cache returns a list that was read for the same record
\* type name, the same query text and the same parameters as the instance asking:
\* instances that differ in one of the three never share a cache key.
C11_CacheKeyInjective ==
    (call.op = "get" /\ call.hit) =>
        LET e == global_lookups[fetch.key]
        IN /\ e.model = fetch.model.name
           /\ e.query = fetch.query
           /\ e.params = fetch.params

\* C12: the cache starts empty; a step changes it only if it is clear_cache or a
\* get with use_cache that read and mapped the rows successfully, which stores exactly
\* the list it returns under its own key; and a get with use_cache=False goes to the
\* pool whatever the cache holds.
C12_CacheChangedOnlyByGetAndClear ==
    /\ global_lookups = EmptyCache
    /\ [][ /\ global_lookups' # global_lookups =>
                \/ call'.op = "clear_cache"
                \/ /\ call'.op = "get" /\ call'.outcome = "ok" /\ fetch.use_cache
                   /\ \E i \in DOMAIN call'.events : call'.events[i] = "fetch"
                   /\ DOMAIN global_lookups' = DOMAIN global_lookups \cup {fetch.key}
                   /\ global_lookups'[fetch.key].data = call'.rows
                   /\ \A k \in DOMAIN global_lookups :
                          k # fetch.key => global_lookups'[k] = global_lookups[k]
           /\ (call'.op = "get" /\ ~fetch.use_cache) =>
                /\ ~call'.hit
                /\ call'.events # <<>> /\ call'.events[1] = "get_connection"
         ]_vars

\* C12: a get with use_cache=False read the database while its key was cached
C12_Witness ==
    /\ call.op = "get" /\ ~fetch.use_cache /\ ~call.hit /\ call.outcome = "ok"
    /\ fetch.key \in DOMAIN global_lookups

\* the number of "%s" placeholders in a text
PlaceholderCount(text) == Count(text, "%s")

\* the number of placeholders in a list of fragments
RECURSIVE PlaceholdersIn(_)
PlaceholdersIn(conds) ==
    IF conds = <<>> THEN 0
    ELSE PlaceholderCount(Head(conds)) + PlaceholdersIn(Tail(conds))

\* C13: on every builder the WHERE fragments hold as many placeholders as there are
\* bound parameters; an accepted where() with IN / NOT IN and a list of N values adds
\* N placeholders and the N values in list order, and with any other operator one
\* placeholder and the one value.
C13_PlaceholdersMatchParams ==
    /\ PlaceholdersIn(where_conditions) = Len(where_params)
    /\ (call.op = "where" /\ call.outcome = "ok") =>
          LET frag  == where_conditions[Len(where_conditions)]
              added == IF Upper(call.operator) \in {OpIN, OpNOTIN}
                       THEN [i \in DOMAIN call.arg.items |-> Scalar(call.arg.items[i])]
                       ELSE <<call.arg>>
              n     == Len(where_params)
          IN /\ PlaceholderCount(frag) = Len(added)
             /\ Len(added) <= n
             /\ SubSeq(where_params, n - Len(added) + 1, n) = added

\* C13: an IN list of two values was accepted as the second predicate
C13_Witness ==
    /\ call.op = "where" /\ call.outcome = "ok"
    /\ call.operator = OpIN /\ Len(call.arg.items) = 2
    /\ Len(where_conditions) = 2 /\ Len(where_params) = 3

\* C14: where() with IN or NOT IN, in any letter case, and a value that is not a list
\* or tuple fails with ValidationError on the query, update and delete builders.
C14_InNeedsList ==
    (/\ call.op = "where"
     /\ kind \in {"query", "update", "delete"}
     /\ Upper(call.operator) \in {OpIN, OpNOTIN}
     /\ call.arg.t # "list")
        => call.outcome = "ValidationError"

\* C14: a scalar given to IN was refused on a draft that already holds a predicate
C14_Witness ==
    /\ call.op = "where" /\ Upper(call.operator) \in {OpIN, OpNOTIN}
    /\ call.arg.t = "scalar" /\ call.outcome = "ValidationError"
    /\ Len(where_conditions) = 1

\* the values of the SET pairs, in SET-clause order
SetParams == [i \in DOMAIN set_values |-> set_values[i].val]

\* the pieces of a text before its " WHERE " piece (all of it when there is none)
RECURSIVE BeforeWhere(_)
BeforeWhere(text) ==
    IF text = <<>> \/ Head(text) = " WHERE " THEN <<>>
    ELSE <<Head(text)>> \o BeforeWhere(Tail(text))

\* C15: the UPDATE that LazyUpdate dispatches carries the SET values in SET-clause
\* order followed by the WHERE values in the order they were added, one per
\* placeholder: as many placeholders before WHERE as SET values and as many after as
\* WHERE values; and a successful execute returns the driver's affected-row count.
C15_UpdateParamsSetThenWhere ==
    (call.op = "update.execute" /\ \E i \in DOMAIN call.events : call.events[i] = "execute")
        => /\ call.params = SetParams \o where_params
           /\ call.sql[1] = "UPDATE "
           /\ PlaceholderCount(BeforeWhere(call.sql)) = Len(set_values)
           /\ PlaceholderCount(call.sql) = Len(set_values) + Len(where_params)
           /\ (where_conditions = <<>>) = (\A i \in DOMAIN call.sql : call.sql[i] # " WHERE ")
           /\ call.outcome = "ok" => call.n = call.rowcount

\* C15: an UPDATE went out with a SET value and a different WHERE value, and no row
\* matched
C15_Witness ==
    /\ call.op = "update.execute" /\ call.outcome = "ok"
    /\ call.params = <<Scalar(2), Scalar(1)>>
    /\ call.n = 0

\* C16: _build_query leaves predicates, parameters, ordering, limit and SET values as
\* they were, and compiling again right after it yields the same text and the same
\* parameters.
C16_CompileTwiceSame ==
    [][ (/\ call'.op \in {"query._build_query", "update._build_query",
                          "delete._build_query"}
         /\ call'.outcome = "ok")
          => /\ UNCHANGED <<where_conditions, where_params, order_by, limit_value,
                            offset_value, set_values>>
             /\ call'.sql =
                  CASE kind = "query" ->
                         LazyQuery_build_query(select_columns', table_name',
                                               where_conditions', order_by',
                                               limit_value', offset_value')
                    [] kind = "update" ->
                         LazyUpdate_build_query(table_name', set_values',
                                                where_conditions')
                    [] kind = "delete" ->
                         LazyDelete_build_query(table_name', where_conditions',
                                                limit_value')
             /\ call'.params =
                  CASE kind = "query" -> where_params'
                    [] kind = "update" ->
                         LazyUpdate_build_params(set_values', where_conditions',
                                                 where_params')
                    [] kind = "delete" ->
                         LazyDelete_build_params(where_conditions', where_params')
      ]_vars

\* C16: a SELECT with no column chosen was compiled, with a predicate and a limit
C16_Witness ==
    /\ call.op = "query._build_query" /\ call.outcome = "ok"
    /\ call.sql[2] = "*" /\ select_columns = << <<"*">> >>
    /\ where_conditions # <<>> /\ limit_value # <<>>

\* C17: a successful to_list executes one statement, with the WHERE parameters, whose
\* text is SELECT <cols> FROM <table>, then WHERE with the predicates joined by AND in
\* insertion order if there are any, then ORDER BY with the orderings in insertion
\* order if there are any, then LIMIT n if a limit is set and OFFSET m if m > 0;
\* order_by accepts ASC and DESC in any letter case and stores them upper-cased.
C17_SelectText ==
    /\ (call.op = "to_list" /\ call.outcome = "ok") =>
          /\ Count(call.events, "execute") = 1
          /\ call.params = where_params
          /\ call.sql =
                <<"SELECT ">> \o Join(select_columns, <<", ">>)
                   \o <<" FROM ">> \o table_name
                   \o (IF where_conditions = <<>> THEN <<>>
                       ELSE <<" WHERE ">> \o Join(where_conditions, <<" AND ">>))
                   \o (IF order_by = <<>> THEN <<>>
                       ELSE <<" ORDER BY ">> \o Join(order_by, <<", ">>))
                   \o (IF limit_value = <<>> THEN <<>>
                       ELSE <<" LIMIT ", Format(limit_value[1])>>
                              \o (IF offset_value[1].v > 0
                                  THEN <<" OFFSET ", Format(offset_value[1])>>
                                  ELSE <<>>))
          /\ select_columns # <<>>
    /\ call.op = "order_by" =>
          /\ Upper(call.operator) \notin {DirASC, DirDESC}
                => call.outcome = "ValidationError"
          /\ call.outcome = "ok" =>
                order_by[Len(order_by)] = call.idents[1] \o <<" ">> \o Upper(call.operator)

\* C17: a SELECT with a predicate, an ordering, a limit and an offset was executed
C17_Witness ==
    /\ call.op = "to_list" /\ call.outcome = "ok"
    /\ where_conditions # <<>> /\ order_by # <<>>
    /\ limit_value # <<>> /\ offset_value[1].v > 0

\* C18: limit() is accepted exactly when every argument is an integer that is not
\* negative, and fails with ValidationError otherwise; an accepted limit n is rendered
\* as LIMIT n, 0 included, and no LIMIT is rendered while none is set.
C18_LimitNonNegativeInteger ==
    /\ call.op = "limit" =>
          (call.outcome = "ok") =
              (\A i \in DOMAIN call.args : call.args[i].t = "int" /\ call.args[i].v >= 0)
    /\ call.op = "limit" => call.outcome \in {"ok", "ValidationError"}
    /\ (call.op \in {"query._build_query", "delete._build_query"}) =>
          /\ limit_value = <<>> => \A i \in DOMAIN call.sql : call.sql[i] # " LIMIT "
          /\ limit_value # <<>> =>
                \E i \in DOMAIN call.sql :
                    /\ call.sql[i] = " LIMIT " /\ i < Len(call.sql)
                    /\ call.sql[i + 1] = Digit(limit_value[1].v)

\* C19: a public call that fails with ValidationError has taken no connection from the
\* pool and dispatched no statement.
C19_ValidationBeforeIO ==
    call.outcome = "ValidationError" => call.events = <<>>

\* C20: a terminal call whose acquisition fails because the pool is exhausted fails
\* with PoolExhaustedError.
C20_PoolExhaustedIsDistinct ==
    (/\ call.op \in {"to_list", "first", "count", "update.execute", "delete.execute",
                     "get", "insert"}
     /\ "pool_exhausted" \in call.faults
     /\ call.events # <<>> /\ call.events[Len(call.events)] = "get_connection")
        => call.outcome = "PoolExhaustedError"

\* the public terminal calls
TerminalOps ==
    {"to_list", "first", "count", "update.execute", "delete.execute", "get", "insert"}

\* C21: every public terminal call, whatever was called before and whichever of
\* acquisition, cursor creation, execute, commit, rollback, row extraction or mapping
\* fails, returns or fails with one of ValidationError, QueryError, DataMappingError,
\* ConnectionError, PoolExhaustedError.
C21_TypedOutcomesOnly ==
    call.op \in TerminalOps =>
        call.outcome \in {"ok", "ValidationError", "QueryError", "DataMappingError",
                          "ConnectionError", "PoolExhaustedError"}

\* the concatenation of a sequence of batches
RECURSIVE Concat(_)
Concat(batches) == IF batches = <<>> THEN <<>> ELSE Head(batches) \o Concat(Tail(batches))

\* C25: a successful insert of n > 0 records with chunk size c > 0 calls executemany
\* ceil(n / c) times with the instance's statement, on batches of 1 to c records that,
\* put end to end, are the data in its original order, and returns n.
C25_InsertChunks ==
    (call.op = "insert" /\ call.outcome = "ok") =>
        LET n == Len(inserter.data)
            c == inserter.chunk_size
        IN /\ n > 0 /\ c > 0
           /\ Count(call.events, "executemany") = (n + c - 1) \div c
           /\ Len(call.data) = (n + c - 1) \div c
           /\ \A k \in DOMAIN call.data : Len(call.data[k]) \in 1..c
           /\ Concat(call.data) = inserter.data
           /\ call.sql = inserter.query
           /\ call.n = n

\* C25: three records went out in chunks of two
C25_Witness ==
    /\ call.op = "insert" /\ call.outcome = "ok"
    /\ Len(inserter.data) = 3 /\ inserter.chunk_size = 2
    /\ call.data = << <<1, 2>>, <<3>> >>

\* C31: when insert failed with QueryError, in whichever chunk, the database keeps no
\* row of this call committed.
C31_InsertAllOrNothing ==
    (call.op = "insert" /\ call.outcome = "QueryError") => call.committed = <<>>

\* C30: when insert has returned or raised after taking a connection, the connection
\* has been closed and the instance references none, whichever of extract_row,
\* executemany, commit, rollback or the closing of the cursor failed.
C30_InsertReleasesConnection ==
    (/\ call.op = "insert"
     /\ \E i \in DOMAIN call.events : call.events[i] = "cursor")
        => /\ Count(call.events, "close") = 1
           /\ inserter.connection = "None"
           /\ leased = 0

\* the pieces of a text after its " WHERE " piece
RECURSIVE AfterWhere(_)
AfterWhere(text) ==
    IF text = <<>> THEN <<>>
    ELSE IF Head(text) = " WHERE " THEN Tail(text)
    ELSE AfterWhere(Tail(text))

\* the pieces of a text before its " ORDER BY " or " LIMIT " piece
RECURSIVE BeforeOrderAndLimit(_)
BeforeOrderAndLimit(text) ==
    IF text = <<>> \/ Head(text) \in {" ORDER BY ", " LIMIT "} THEN <<>>
    ELSE <<Head(text)>> \o BeforeOrderAndLimit(Tail(text))

C26_CountStatement ==
    (call.op = "count" /\ call.outcome = "ok") =>
        /\ call.sql = <<"SELECT COUNT(*) FROM ">> \o table_name
                         \o (IF where_conditions = <<>> THEN <<>>
                             ELSE <<" WHERE ">> \o Join(where_conditions, <<" AND ">>))
        /\ call.params = where_params
        /\ call.returns = "int"
        /\ call.n = IF call.data = <<>> THEN 0 ELSE call.data[1][1]

\* C26: a count ran on a draft with columns, a predicate, an ordering and a limit, and
\* returned the 1 the row held
C26_Witness ==
    /\ call.op = "count" /\ call.outcome = "ok" /\ call.n = 1
    /\ select_columns # <<>> /\ where_conditions # <<>>
    /\ order_by # <<>> /\ limit_value # <<>>

\* C27: first() returns the record mapped from the first row fetched, and None when no
\* row was fetched; to_list() returns an empty list when no row was fetched.
C27_FirstAndEmpty ==
    /\ (call.op = "first" /\ call.outcome = "ok") =>
          IF call.data = <<>>
          THEN call.returns = "None" /\ call.rows = <<>>
          ELSE /\ call.returns = "record"
               /\ call.rows = << [type |-> model.name, fields |-> call.data[1]] >>
    /\ (call.op = "to_list" /\ call.outcome = "ok" /\ call.data = <<>>) =>
          call.returns = "list" /\ call.rows = <<>>

\* C27: first() returned the first of two different records
C27_Witness ==
    /\ call.op = "first" /\ call.outcome = "ok"
    /\ Len(call.data) = 2 /\ call.data[1] # call.data[2]
    /\ call.returns = "record"

\* C28: a LazyUpdate.execute or LazyDelete.execute that succeeds has taken a
\* connection, made a cursor, executed once, committed once, then closed the cursor
\* and the connection, in this order, with no rollback; the statement went out with
\* the bound parameters and the call returns the cursor's affected-row count.
C28_MutationSuccessPath ==
    (call.op \in {"update.execute", "delete.execute"} /\ call.outcome = "ok") =>
        /\ call.events = <<"get_connection", "cursor", "execute", "commit",
                           "cursor.close", "close">>
        /\ call.n = call.rowcount
        /\ Count(call.sql, "%s") = Len(call.params)
        /\ connection = "None" /\ cursor = "None"

\* C28: a DELETE with a predicate succeeded and reported one row
C28_Witness ==
    /\ call.op = "delete.execute" /\ call.outcome = "ok"
    /\ where_conditions # <<>> /\ call.n = 1
    /\ call.faults = {}

\* C22: no get and no clear_cache fails because of the cache container, however the
\* calls of concurrent threads interleave: not a get whose key is removed between its
\* test and its read, and not a clear_cache whose key another clear_cache deleted.
C22_CacheContainerSafe ==
    \A t \in Threads :
        threads[t].op \in {"get", "clear_cache"} => threads[t].outcome # "KeyError"

\* C23: no connection or cursor has the statements of two to_list calls running on
\* it, and a connection with such a statement running on it is open and so is its
\* cursor, whether the concurrent calls run on builders of their own or on one builder.
C23_SessionNotShared ==
    \A c \in ConnNames :
        LET inFlight == {t \in connections[c].running : threads[t].op = "to_list"}
        IN /\ Cardinality(inFlight) <= 1
           /\ inFlight # {} =>
                 connections[c].state = "open" /\ connections[c].cursor # "closed"

\* C29: when two get calls with use_cache and the same key both found the cache
\* without their key, and both have completed, then both succeeded, the cache holds
\* one entry, under that key, with the list of the call that wrote last, and every
\* connection taken has been released.
C29_ConcurrentGetsLastWriteWins ==
    (\A t \in Threads :
        /\ threads[t].pc = "done" /\ threads[t].op = "get" /\ ~threads[t].hit
        /\ ThreadUseCache(t) /\ ThreadKey(t) = ThreadKey(1))
      => /\ \A t \in Threads : threads[t].outcome = "ok"
         /\ DOMAIN global_lookups = {ThreadKey(1)}
         /\ \E t \in Threads :
               threads[t].wrote /\ global_lookups[ThreadKey(1)].data = threads[t].rows
         /\ \A c \in ConnNames : connections[c].state # "open"
         /\ leased = 0

\* C32: first() leaves the draft's limit and offset as the caller set them (unset when
\* the caller set none), so that a later to_list() or first() compiles with them, and
\* on a draft with limit(0) a first() that succeeds returns None.
C32_FirstKeepsDraft ==
    [][call'.op = "first" =>
          /\ limit_value' = limit_value
          /\ offset_value' = offset_value
          /\ (limit_value = <<IntObj(0)>> /\ call'.outcome = "ok")
                 => call'.returns = "None"]_vars

\* the builder calls that validate their arguments
ValidatingOps == {"where", "order_by", "limit", "select", "set"}

\* C33: a where, order_by, limit, select or set call that fails with ValidationError
\* leaves every field of the draft as it was before the call: no fragment, parameter,
\* ordering, limit, offset, selected column or SET value is added, not even for the
\* good columns that came before a bad one in the same set() call.
C33_RejectedCallKeepsDraft ==
    [][(call'.op \in ValidatingOps /\ call'.outcome = "ValidationError")
          => UNCHANGED draftVars]_vars

\* C33: a set() call with a bad column after a good one was rejected on an update
\* builder that holds a SET value and a predicate, and the good column was not added
C33_Witness ==
    /\ call.op = "set" /\ call.outcome = "ValidationError"
    /\ call.idents = <<IdB, IdInj>>
    /\ where_conditions # <<>>
    /\ set_values = << [col |-> IdA, val |-> Scalar(2)] >>

\* the values two drafts may differ in
OtherValues == 0..3

\* the values of the same shape as value: the scalars, or the lists of its length
SameShape(value) ==
    IF IsList(value)
    THEN {List(items) : items \in [DOMAIN value.items -> OtherValues]}
    ELSE {Scalar(n) : n \in OtherValues}

\* the SET mappings with the columns of sv, in its order, and any values
Revalued(sv) ==
    {[i \in DOMAIN sv |-> [col |-> sv[i].col, val |-> f[i]]] :
        f \in [DOMAIN sv -> {Scalar(n) : n \in OtherValues}]}

\* the fragment the builder at hand makes of a where() call
FragmentOf(column, value, operator) ==
    CASE kind = "query"  -> LazyQuery_whereFragment(column, value, operator)
      [] kind = "update" -> LazyUpdate_whereFragment(column, value, operator)
      [] OTHER           -> LazyDelete_whereFragment(column, value, operator)

\* C34: the SQL text does not depend on predicate values or SET values: the fragment
\* an accepted where() appends is the one it appends for every other value of the same
\* shape (a scalar, or a list of the same length); the UPDATE text is the one compiled
\* from the same SET columns with any other values; and every SELECT, COUNT, UPDATE
\* and DELETE text holds one placeholder for each bound parameter, so that two such
\* drafts differ in the parameter list only.
C34_TextIndependentOfValues ==
    /\ (call.op = "where" /\ call.outcome = "ok") =>
          \A v \in SameShape(call.arg) :
              where_conditions[Len(where_conditions)]
                  = FragmentOf(call.idents[1], v, call.operator)
    /\ (call.op \in {"update._build_query", "update.execute"} /\ call.sql # <<>>) =>
          \A sv \in Revalued(set_values) :
              call.sql = LazyUpdate_build_query(table_name, sv, where_conditions)
    /\ (/\ call.op \in {"query._build_query", "update._build_query",
                         "delete._build_query", "to_list", "count", "update.execute",
                         "delete.execute"}
        /\ call.sql # <<>>)
          => PlaceholderCount(call.sql) = Len(call.params)

\* C34: an UPDATE was compiled from a SET value and an IN predicate over two values
C34_Witness ==
    /\ call.op = "update._build_query" /\ call.outcome = "ok"
    /\ set_values # <<>>
    /\ Len(where_params) = 2 /\ Len(where_conditions) = 1

ContextOps == {"__enter__", "__exit__", "to_list", "first", "count"}

\* what was closed comes after every use in the events of a call
ClosedLast(events) ==
    \A i, j \in DOMAIN events :
        (events[i] \in {"cursor.close", "close"} /\ i < j)
            => events[j] \in {"cursor.close", "close"}

\* C36: on a query builder that is entered, executed and left in any order, a call
\* closes a cursor and a connection at most once each, after its last use of them, and
\* only ones the builder held or the call took, and the builder references none it
\* closed; __enter__ takes no connection when the builder holds one; a terminal call on
\* a builder holding a connection takes none and releases that one; a terminal call on
\* a builder holding none asks the pool first; after __exit__ the builder holds no
\* connection and no cursor, and none is out of the pool.
C36_ContextManagerSession ==
    [][(call'.op \in ContextOps /\ kind = "query") =>
          /\ Count(call'.events, "close") <= 1
          /\ Count(call'.events, "cursor.close") <= 1
          /\ Count(call'.events, "get_connection") <= 1
          /\ ClosedLast(call'.events)
          /\ Count(call'.events, "close") = 1 =>
                /\ connection # "None" \/ Count(call'.events, "cursor") = 1
                /\ connection' = "None" /\ cursor' = "None"
          /\ connection' \in {"None", "open"} /\ cursor' \in {"None", "open"}
          /\ leased' = (IF connection' = "open" THEN 1 ELSE 0)
          /\ connection # "None" => Count(call'.events, "get_connection") = 0
          /\ (call'.op \in {"to_list", "first", "count"} /\ connection # "None") =>
                /\ Count(call'.events, "close") = 1
                /\ leased' = 0
          /\ (call'.op \in {"to_list", "first", "count"} /\ connection = "None") =>
                call'.events[1] = "get_connection"
          /\ call'.op = "__exit__" =>
                connection' = "None" /\ cursor' = "None" /\ leased' = 0]_vars

\* C36: a to_list inside the block ran on the connection and cursor that __enter__
\* took, asking the pool for none, and released them
C36_Witness ==
    /\ call.op = "to_list" /\ call.outcome = "ok"
    /\ call.events = <<"execute", "fetch", "cursor.close", "close">>
    /\ connection = "None" /\ cursor = "None" /\ leased = 0

\* the terminal calls that clean up with guarded close calls
GuardedOps == {"to_list", "first", "count", "update.execute", "delete.execute", "get"}

\* C37: a terminal call of LazyQuery, LazyUpdate, LazyDelete or LazyFetch during which
\* a close call of cleanup fails still tries to close the connection after the cursor,
\* leaves the builder without cursor and connection references, and ends as the same
\* call ended, right before it on the same builder with the same driver results, when
\* no close call failed: with the same outcome (success or the same error) and the
\* same returned value.
C37_CleanupFailureKeepsOutcome ==
    [][(/\ call'.op \in GuardedOps
        /\ call'.faults \cap CloseFaults # {}
        /\ ~call'.hit) =>
          /\ (\E i \in DOMAIN call'.events : call'.events[i] = "cursor.close") =>
                \E i, j \in DOMAIN call'.events :
                    /\ i < j
                    /\ call'.events[i] = "cursor.close"
                    /\ call'.events[j] = "close"
          /\ connection' = "None" /\ cursor' = "None" /\ fetch'.connection = "None"
          /\ (/\ call.op = call'.op /\ ~call.hit
              /\ call.faults = call'.faults \ CloseFaults
              /\ call.data = call'.data
              /\ call.rowcount = call'.rowcount
              /\ call.confirm = call'.confirm) =>
                /\ call'.outcome = call.outcome
                /\ call'.n = call.n
                /\ call'.rows = call.rows
                /\ call'.returns = call.returns]_vars

\* C37: an UPDATE whose execute failed was run again with both close calls failing as
\* well, and ended in the same QueryError
C37_Witness ==
    /\ call.op = "update.execute"
    /\ call.faults = {"execute", "cursor.close", "close"}
    /\ call.outcome = "QueryError"
    /\ call.prior.any

\* the Connector calls that drop the stored pool
DiscardingOps == {"close_pool", "Connector.__exit__"}

\* the calls that call get_connection_pool
PoolOps == {"get_connection_pool", "show_process_list"}

====
